---------------------------- MODULE Spec2Model ----------------------------
(***************************************************************************)
(* ISL phrase-to-video matching and playlist stitching of wras-v3          *)
(* (server actions getIslVideoPlaylist and stitchVideosWithFfmpeg).        *)
(*                                                                         *)
(* A JavaScript string is a sequence of one-character strings, so that     *)
(* toLowerCase, replace, split and join are computed character by          *)
(* character as the code computes them.  Array indices are 0-based as in   *)
(* the code: element k of a JavaScript array arr is arr[k + 1] here.       *)
(***************************************************************************)
EXTENDS Integers, Sequences, FiniteSets, TLC

(***************************************************************************)
(* Bounds of the model.                                                    *)
(***************************************************************************)
\* most pieces (words or gaps) an enumerated input text is joined from
MaxPieces == 3
\* most clip files an enumerated video library holds
MaxClips == 2
\* Date.now() ranges over 0 .. MaxClock
MaxClock == 1
\* the longest root directory listing of the generated directory trees
MaxEntries == 2
\* the ids of train routes are 1 .. MaxRoutes
MaxRoutes == 2
\* at most MaxInstances SpeechRecognition objects are created
MaxInstances == 4
\* at most MaxFinals final results arrive in one recording
MaxFinals == 2
\* at most MaxGenerations calls of getIslVideoPlaylist from the page
MaxGenerations == 2
\* startPlayback is registered twice: on load and on DOM ready
StartCalls == 2

(***************************************************************************)
(* String primitives of JavaScript used by the code.                       *)
(***************************************************************************)
Min(a, b) == IF a <= b THEN a ELSE b

\* the letters String.prototype.toLowerCase changes, and their images
UpperCase == <<"A", "B", "C", "D", "E", "F", "G", "H", "I", "J", "K", "L", "M",
               "N", "O", "P", "Q", "R", "S", "T", "U", "V", "W", "X", "Y", "Z">>

LowerCase == <<"a", "b", "c", "d", "e", "f", "g", "h", "i", "j", "k", "l", "m",
               "n", "o", "p", "q", "r", "s", "t", "u", "v", "w", "x", "y", "z">>

UpperToLower ==
    [c \in {UpperCase[k] : k \in 1..Len(UpperCase)} |->
        LowerCase[CHOOSE k \in 1..Len(UpperCase) : UpperCase[k] = c]]

LowerChar(c) == IF c \in DOMAIN UpperToLower THEN UpperToLower[c] ELSE c

\* s.toLowerCase()
ToLowerCase(s) == [k \in 1..Len(s) |-> LowerChar(s[k])]

\* characters matched by \s in a regular expression (those the inputs use)
WhiteSpace == {" ", "\t", "\n"}

\* s.replace(/[<set>]/g, '')
RemoveChars(s, set) ==
    LET Kept(c) == c \notin set
    IN  SelectSeq(s, Kept)

\* s.replace(/_/g, ' ')
UnderscoresToSpaces(s) == [k \in 1..Len(s) |-> IF s[k] = "_" THEN " " ELSE s[k]]

\* whether sub occurs in s at (1-based) position k
OccursAt(s, sub, k) ==
    /\ k + Len(sub) - 1 <= Len(s)
    /\ \A d \in 1..Len(sub) : s[k + d - 1] = sub[d]

\* s.replace(sub, ''): a string pattern replaces its FIRST occurrence only
ReplaceFirst(s, sub) ==
    LET hits == {k \in 1..Len(s) : OccursAt(s, sub, k)}
    IN  IF hits = {} THEN s
        ELSE LET k == CHOOSE x \in hits : \A y \in hits : x <= y
             IN  SubSeq(s, 1, k - 1) \o SubSeq(s, k + Len(sub), Len(s))

\* the positions in s where a separator starts: a character of seps that,
\* when runs are one separator (plus), does not continue a run
SeparatorStarts(s, seps, plus) ==
    {k \in 1..Len(s) : s[k] \in seps /\ ~(plus /\ k > 1 /\ s[k - 1] \in seps)}

\* the last position of the separator that starts at k
SeparatorEnd(s, seps, plus, k) ==
    IF plus
    THEN CHOOSE e \in k..Len(s) :
            /\ \A x \in k..e : s[x] \in seps
            /\ (e = Len(s) \/ s[e + 1] \notin seps)
    ELSE k

\* s.split(sep) for a separator that is a set of characters, each run of
\* length >= 1 (plus = TRUE, /\s+/) or exactly one character (plus = FALSE,
\* '/') being one separator: the pieces before, between and after the
\* separators, empty pieces included
SplitOn(s, seps, plus) ==
    LET starts == SeparatorStarts(s, seps, plus)
        Nth(n) == CHOOSE k \in starts : Cardinality({x \in starts : x < k}) = n - 1
        From(n) == IF n = 1 THEN 1 ELSE SeparatorEnd(s, seps, plus, Nth(n - 1)) + 1
        To(n) == IF n = Cardinality(starts) + 1 THEN Len(s) ELSE Nth(n) - 1
    IN  [n \in 1..Cardinality(starts) + 1 |-> SubSeq(s, From(n), To(n))]

RECURSIVE JoinWith(_, _)
\* arr.join(sep)
JoinWith(arr, sep) ==
    IF arr = <<>> THEN <<>>
    ELSE IF Len(arr) = 1 THEN arr[1]
    ELSE arr[1] \o sep \o JoinWith(Tail(arr), sep)

\* arr.slice(from, to) with 0-based from (inclusive) and to (exclusive)
Slice(arr, from, to) == SubSeq(arr, from + 1, to)


(***************************************************************************)
(* Paths and file names.                                                   *)
(***************************************************************************)
\* process.cwd()
Cwd == <<"/", "a", "p", "p">>

\* the clip extension
Mp4 == <<".", "m", "p", "4">>

\* the library root relative to public/, as getIslVideos returns its paths
IslDataset == <<"/", "i", "s", "l", "_", "d", "a", "t", "a", "s", "e", "t">>

\* the path getIslVideos returns for the clip file <name>.mp4 in directory
\* <dir> (a sequence of directory names) under the library root
ClipPath(dir, name) ==
    IslDataset \o <<"/">> \o JoinWith(dir \o <<name \o Mp4>>, <<"/">>)

(***************************************************************************)
(* getIslVideoPlaylist: the library map and the tokens.                    *)
(***************************************************************************)
\* p.split('/').pop()?.replace('.mp4', '').replace(/_/g, ' ') ?? ''
FileNameOf(p) ==
    LET parts == SplitOn(p, {"/"}, FALSE)
    IN  UnderscoresToSpaces(ReplaceFirst(parts[Len(parts)], Mp4))

\* the key videoMap.set is called with for path p
KeyOf(p) == ToLowerCase(FileNameOf(p))

\* faulty variant: the first path set for a key is kept
MapSetKeepFirst(map, key, p) ==
    [k \in DOMAIN map \cup {key} |-> IF k \in DOMAIN map THEN map[k] ELSE p]

\* videoMap.set(key, p): a later set of the same key overwrites
MapSet(map, key, p) ==
    [k \in DOMAIN map \cup {key} |-> IF k = key THEN p ELSE map[k]]

RECURSIVE BuildVideoMap(_)
\* allVideoPaths.forEach(p => { ... if (fileName) videoMap.set(...) })
BuildVideoMap(paths) ==
    IF paths = <<>> THEN << >>
    ELSE LET before == BuildVideoMap(SubSeq(paths, 1, Len(paths) - 1))
             p == paths[Len(paths)]
         IN  IF FileNameOf(p) # <<>> THEN MapSet(before, KeyOf(p), p)
             ELSE before

\* text.toLowerCase().replace(/[.,]/g, '').split(/\s+/)
Tokenize(t) == SplitOn(RemoveChars(ToLowerCase(t), {".", ","}), WhiteSpace, TRUE)

\* words.slice(i, j + 1).join(' ')
Phrase(ws, i, j) == JoinWith(Slice(ws, i, j + 1), <<" ">>)

\* videoMap.has(key)
Has(map, key) == key \in DOMAIN map

RECURSIVE ForWindowUp(_, _, _, _, _)
ForWindowUp(ws, map, i, j, k) ==
    IF k > j THEN -1
    ELSE IF Has(map, Phrase(ws, i, k)) THEN k
    ELSE ForWindowUp(ws, map, i, j, k + 1)

\* faulty variant: the for loop run upwards, for (j = i; j <= first; j++)
ForWindowShortestFirst(ws, map, i, j) == ForWindowUp(ws, map, i, j, i)

RECURSIVE ForWindowAboveCursor(_, _, _, _)
\* faulty variant: the for loop stops before the single word, j > i
ForWindowAboveCursor(ws, map, i, j) ==
    IF j <= i THEN -1
    ELSE IF Has(map, Phrase(ws, i, j)) THEN j
    ELSE ForWindowAboveCursor(ws, map, i, j - 1)

RECURSIVE ForWindow(_, _, _, _)
\* the for loop over j, from j downwards: the j it breaks at, or -1 when it
\* ends with foundMatch = false
ForWindow(ws, map, i, j) ==
    IF j < i THEN -1
    ELSE IF Has(map, Phrase(ws, i, j)) THEN j
    ELSE ForWindow(ws, map, i, j - 1)

\* faulty variant: phrases of up to two words only
FirstJTwoWords(ws, i) == Min(i + 1, Len(ws) - 1)

\* the first j of the for loop
FirstJ(ws, i) == Min(i + 2, Len(ws) - 1)

\* faulty variant: i = j after a match, the last token of the window is read again
LoopStepNoAdvance(ws, map, i, pl) ==
    LET j == ForWindow(ws, map, i, FirstJ(ws, i))
    IN  IF j # -1
        THEN [i |-> j, playlist |-> Append(pl, map[Phrase(ws, i, j)])]
        ELSE [i |-> i + 1,
              playlist |-> IF Has(map, ws[i + 1])
                           THEN Append(pl, map[ws[i + 1]])
                           ELSE pl]

\* faulty variant: playlist.unshift instead of playlist.push
LoopStepUnshift(ws, map, i, pl) ==
    LET j == ForWindow(ws, map, i, FirstJ(ws, i))
    IN  IF j # -1
        THEN [i |-> j + 1, playlist |-> <<map[Phrase(ws, i, j)]>> \o pl]
        ELSE [i |-> i + 1,
              playlist |-> IF Has(map, ws[i + 1])
                           THEN <<map[ws[i + 1]]>> \o pl
                           ELSE pl]

\* faulty variant: the single-word fallback pushes videoMap.get(words[i]) without
\* checking has: undefined (here the empty path) for an unmatched word
LoopStepNoHasCheck(ws, map, i, pl) ==
    LET j == ForWindow(ws, map, i, FirstJ(ws, i))
    IN  IF j # -1
        THEN [i |-> j + 1, playlist |-> Append(pl, map[Phrase(ws, i, j)])]
        ELSE [i |-> i + 1,
              playlist |-> Append(pl, IF Has(map, ws[i + 1])
                                      THEN map[ws[i + 1]]
                                      ELSE <<>>)]

\* faulty variant: an unmatched word stops the scan, i = words.length
LoopStepStopsAtMiss(ws, map, i, pl) ==
    LET j == ForWindow(ws, map, i, FirstJ(ws, i))
    IN  IF j # -1
        THEN [i |-> j + 1, playlist |-> Append(pl, map[Phrase(ws, i, j)])]
        ELSE [i |-> Len(ws), playlist |-> pl]

\* faulty variant: no i++ for an unmatched word
LoopStepStuckAtMiss(ws, map, i, pl) ==
    LET j == ForWindow(ws, map, i, FirstJ(ws, i))
    IN  IF j # -1
        THEN [i |-> j + 1, playlist |-> Append(pl, map[Phrase(ws, i, j)])]
        ELSE [i |-> i, playlist |-> pl]

\* one iteration of the while loop: the cursor and the playlist after it
LoopStep(ws, map, i, pl) ==
    LET j == ForWindow(ws, map, i, FirstJ(ws, i))
    IN  IF j # -1
        THEN [i |-> j + 1, playlist |-> Append(pl, map[Phrase(ws, i, j)])]
        ELSE [i |-> i + 1,
              playlist |-> IF Has(map, ws[i + 1])
                           THEN Append(pl, map[ws[i + 1]])
                           ELSE pl]

RECURSIVE WhileLoop(_, _, _, _)
\* the while loop run to its end from cursor i with playlist pl
WhileLoop(ws, map, i, pl) ==
    IF i < Len(ws)
    THEN LET s == LoopStep(ws, map, i, pl)
         IN  WhileLoop(ws, map, s.i, s.playlist)
    ELSE pl

\* the playlist the matching loop builds for a text and the paths of
\* getIslVideos (before any stitching)
MatchedPlaylist(t, paths) ==
    IF t = <<>> THEN <<>>
    ELSE WhileLoop(Tokenize(t), BuildVideoMap(paths), 0, <<>>)

(***************************************************************************)
(* stitchVideosWithFfmpeg: paths, the file list and the tool.              *)
(***************************************************************************)
Digits == <<"0", "1", "2", "3", "4", "5", "6", "7", "8", "9">>

RECURSIVE NumberToString(_)
\* `${n}` for an integer n >= 0
NumberToString(n) ==
    IF n < 10 THEN <<Digits[n + 1]>>
    ELSE NumberToString(n \div 10) \o <<Digits[(n % 10) + 1]>>

\* path.join(process.cwd(), 'public')
PublicDir == Cwd \o <<"/", "p", "u", "b", "l", "i", "c">>

\* path.join(process.cwd(), 'public', 'audio', '_announcements')
OutputDir ==
    PublicDir \o <<"/", "a", "u", "d", "i", "o">>
              \o <<"/", "_", "a", "n", "n", "o", "u", "n", "c", "e", "m", "e",
                   "n", "t", "s">>

\* `isl_announcement_${Date.now()}.mp4`
OutputFileName(now) ==
    <<"i", "s", "l", "_", "a", "n", "n", "o", "u", "n", "c", "e", "m", "e", "n",
      "t", "_">> \o NumberToString(now) \o Mp4

\* path.join(outputDir, outputFileName)
OutputPath(name) == OutputDir \o <<"/">> \o name

\* path.join(outputDir, 'temp_video_list.txt')
TempListPath ==
    OutputDir \o <<"/", "t", "e", "m", "p", "_", "v", "i", "d", "e", "o", "_",
                   "l", "i", "s", "t", ".", "t", "x", "t">>

FilePrefix == <<"f", "i", "l", "e", " ", "'">>

\* `file '${path.join(process.cwd(), 'public', videoPath)}'`, videoPath
\* being a normalized path that starts with a slash
FileLine(videoPath) == FilePrefix \o PublicDir \o videoPath \o <<"'">>

\* faulty variant: the list written last clip first
FileListContentReversed(videoPaths) ==
    JoinWith([k \in 1..Len(videoPaths) |->
                 FileLine(videoPaths[Len(videoPaths) + 1 - k])], <<"\n">>)

\* videoPaths.map(videoPath => `file '...'`).join('\n')
FileListContent(videoPaths) ==
    JoinWith([k \in 1..Len(videoPaths) |-> FileLine(videoPaths[k])], <<"\n">>)

\* the files ffmpeg's concat demuxer reads from a list: the text between
\* the quotes of each line
ListedFiles(content) ==
    LET lines == SplitOn(content, {"\n"}, FALSE)
    IN  [k \in 1..Len(lines) |->
            SubSeq(lines[k], Len(FilePrefix) + 1, Len(lines[k]) - 1)]

\* outputPath.replace(path.join(process.cwd(), 'public'), '')
ReturnedPath(outputPath) == ReplaceFirst(outputPath, PublicDir)

\* a value of type string | null: null is << >>, the string s is << s >>
Null == << >>

\* faulty variant: the branches swapped, stitchedVideo ? [] : [stitchedVideo]
ResultOfSwapped(stitched) ==
    IF stitched # Null /\ stitched[1] # <<>> THEN <<>> ELSE <<stitched>>

\* stitchedVideo ? [stitchedVideo] : []  (null and '' are falsy)
ResultOf(stitched) ==
    IF stitched # Null /\ stitched[1] # <<>> THEN <<stitched[1]>> ELSE <<>>

(***************************************************************************)
(* handleGenerateAnnouncement: the digits of the English text set apart.   *)
(***************************************************************************)
\* \d
IsDigit(c) == c \in {Digits[k] : k \in 1..Len(Digits)}

\* the number of matches of /\d/g in s[from..to]
DigitCount(s, from, to) == Cardinality({k \in from..to : IsDigit(s[k])})

\* faulty variant: the replacement '$1 ', a space after the digit only
NormalizeDigitsSpaceAfter(s) ==
    LET at(k) == k + DigitCount(s, 1, k - 1)
        n == Len(s) + DigitCount(s, 1, Len(s))
    IN  [q \in 1..n |->
            IF \E k \in 1..Len(s) : at(k) = q
            THEN s[CHOOSE k \in 1..Len(s) : at(k) = q]
            ELSE " "]

\* s.replace(/(\d)/g, ' $1 '): every match is replaced by a space, the
\* match and a space; character k of s lands behind the two spaces of each
\* digit before it and behind the leading space of its own replacement
NormalizeDigits(s) ==
    LET at(k) == k + 2 * DigitCount(s, 1, k - 1)
                   + (IF IsDigit(s[k]) THEN 1 ELSE 0)
        n == Len(s) + 2 * DigitCount(s, 1, Len(s))
    IN  [q \in 1..n |->
            IF \E k \in 1..Len(s) : at(k) = q
            THEN s[CHOOSE k \in 1..Len(s) : at(k) = q]
            ELSE " "]

(***************************************************************************)
(* getIslVideos: the clips found under public/isl_dataset.  A directory    *)
(* is a record with the entries readdir lists, in its order; an entry has  *)
(* a name, a kind (what its Dirent answers) and, for a directory, whether  *)
(* readdir succeeds on it and its own entries.                             *)
(***************************************************************************)
\* name.endsWith(suffix)
EndsWith(name, suffix) ==
    /\ Len(name) >= Len(suffix)
    /\ SubSeq(name, Len(name) - Len(suffix) + 1, Len(name)) = suffix

\* s.replace(/\\/g, '/')
BackslashesToSlashes(s) == [k \in 1..Len(s) |-> IF s[k] = "\\" THEN "/" ELSE s[k]]

\* `/${path.relative(baseDir, fullPath).replace(/\\/g, '/')}` for the entry
\* <name> of the directory <dir> (names below the library root)
EntryPath(dir, name) ==
    BackslashesToSlashes(IslDataset \o <<"/">> \o JoinWith(dir \o <<name>>, <<"/">>))

RECURSIVE FindVideos(_, _)
RECURSIVE ForEntries(_, _, _, _)
RECURSIVE ForEntriesAborting(_, _, _, _)
RECURSIVE ForEntriesFlat(_, _, _, _)

\* faulty variant: an unreadable subdirectory ends the pass over its parent
\* with nothing
ForEntriesAborting(dir, entries, k, videoFiles) ==
    IF k > Len(entries) THEN videoFiles
    ELSE LET e == entries[k]
         IN  IF e.kind = "dir" /\ ~e.readable THEN <<>>
             ELSE ForEntriesAborting(dir, entries, k + 1,
                     IF e.kind = "dir"
                     THEN videoFiles \o FindVideos(dir \o <<e.name>>, e)
                     ELSE IF e.kind = "file" /\ EndsWith(e.name, Mp4)
                          THEN Append(videoFiles, EntryPath(dir, e.name))
                          ELSE videoFiles)

\* faulty variant: subdirectories are not entered
ForEntriesFlat(dir, entries, k, videoFiles) ==
    IF k > Len(entries) THEN videoFiles
    ELSE LET e == entries[k]
         IN  ForEntriesFlat(dir, entries, k + 1,
                 IF e.kind = "file" /\ EndsWith(e.name, Mp4)
                 THEN Append(videoFiles, EntryPath(dir, e.name))
                 ELSE videoFiles)

\* for (const entry of entries) { ... } from entry k on
ForEntries(dir, entries, k, videoFiles) ==
    IF k > Len(entries) THEN videoFiles
    ELSE LET e == entries[k]
         IN  ForEntries(dir, entries, k + 1,
                 IF e.kind = "dir"
                 THEN videoFiles \o FindVideos(dir \o <<e.name>>, e)
                 ELSE IF e.kind = "file" /\ EndsWith(e.name, Mp4)
                      THEN Append(videoFiles, EntryPath(dir, e.name))
                      ELSE videoFiles)

\* findVideos(dir): a rejected readdir is caught and nothing is returned
FindVideos(dir, d) ==
    IF d.readable THEN ForEntries(dir, d.entries, 1, <<>>) ELSE <<>>

\* faulty variant: the root is listed though fs.access rejected
GetIslVideosWithoutAccess(lib) ==
    FindVideos(<<>>, [readable |-> lib.state # "unreadable", entries |-> lib.entries])

\* getIslVideos(): [] when fs.access(videoDir) rejects
GetIslVideos(lib) ==
    IF lib.state = "missing" THEN <<>>
    ELSE FindVideos(<<>>, [readable |-> lib.state = "ok", entries |-> lib.entries])

\* directory entries
File(name) == [name |-> name, kind |-> "file", readable |-> TRUE, entries |-> <<>>]
Other(name) == [name |-> name, kind |-> "other", readable |-> TRUE, entries |-> <<>>]
Dir(name, readable, entries) ==
    [name |-> name, kind |-> "dir", readable |-> readable, entries |-> entries]

(***************************************************************************)
(* Inputs: the texts and the libraries requests are made with.             *)
(***************************************************************************)
SeqsUpTo(S, n) == UNION {[1..k -> S] : k \in 0..n}

\* a text: up to MaxPieces pieces joined with single spaces (the empty
\* piece gives leading, trailing and doubled spaces)
TextsOf(pieces) == {JoinWith(ps, <<" ">>) : ps \in SeqsUpTo(pieces, MaxPieces)}

Distinct(q) == \A k, l \in 1..Len(q) : k # l => q[k] # q[l]

\* what getIslVideos returns: up to MaxClips clip files in traversal order
LibrariesOf(clips) == {q \in SeqsUpTo(clips, MaxClips) : Distinct(q)}

\* words in either case, with punctuation attached, and gaps; clips of
\* words, of a two-word phrase, and one in a subdirectory whose name differs
\* from another's by case only
WordPieces == {<<"a">>, <<"A">>, <<"b", ",">>, <<>>}

WordClips ==
    {ClipPath(<<>>, <<"a">>), ClipPath(<<>>, <<"b">>),
     ClipPath(<<>>, <<"a", "_", "b">>), ClipPath(<<<<"x">>>>, <<"A">>)}

\* punctuation, symbols and gaps beside a word; clips whose names hold no
\* letter beside a word's
SymbolPieces == {<<".">>, <<"!">>, <<>>, <<"a">>}

SymbolClips ==
    {ClipPath(<<>>, <<"_">>), ClipPath(<<>>, <<"!">>), ClipPath(<<>>, <<"a">>)}

\* the spec's examples, and clip names of three and four words and with
\* '.mp4' inside the name
NewDelhi == <<"n", "e", "w", " ", "d", "e", "l", "h", "i">>

MumbaiCentral ==
    <<"M", "u", "m", "b", "a", "i", "_", "C", "e", "n", "t", "r", "a", "l">>

ExampleInputs ==
    {<<NewDelhi,
       <<ClipPath(<<>>, <<"n", "e", "w", "_", "d", "e", "l", "h", "i">>),
         ClipPath(<<>>, <<"d", "e", "l", "h", "i">>)>>>>,
     <<NewDelhi,
       <<ClipPath(<<>>, <<"d", "e", "l", "h", "i">>),
         ClipPath(<<>>, <<"n", "e", "w", "_", "d", "e", "l", "h", "i">>)>>>>,
     <<<<"a", " ", "b", " ", "c">>,
       <<ClipPath(<<>>, <<"a", "_", "b">>), ClipPath(<<>>, <<"c">>)>>>>,
     <<<<"M", "U", "M", "B", "A", "I", " ", "c", "e", "n", "t", "r", "a", "l">>,
       <<ClipPath(<<>>, MumbaiCentral)>>>>,
     <<<<"m", "u", "m", "b", "a", "i", " ", "c", "e", "n", "t", "r", "a", "l">>,
       <<ClipPath(<<>>, MumbaiCentral)>>>>,
     <<<<"a", " ", "b", " ", "a">>,
       <<ClipPath(<<>>, <<"a", "_", "b", "_", "a">>)>>>>,
     <<<<"a", " ", "b", " ", "a">>,
       <<ClipPath(<<>>, <<"a", "_", "b", "_", "a">>),
         ClipPath(<<>>, <<"a", "_", "b">>)>>>>,
     <<<<"a", " ", "b", " ", "a", " ", "b">>,
       <<ClipPath(<<>>, <<"a", "_", "b", "_", "a", "_", "b">>)>>>>,
     <<<<"a", " ", "b", " ", "a", " ", "b">>,
       <<ClipPath(<<>>, <<"a", "_", "b", "_", "a", "_", "b">>),
         ClipPath(<<>>, <<"a", "_", "b">>)>>>>,
     <<<<"a", "b", ".", "m", "p", "4">>,
       <<ClipPath(<<>>, <<"a", ".", "m", "p", "4", "b">>)>>>>,
     <<<<"a", " ", " ", "b">>,
       <<ClipPath(<<>>, <<"a", "_", "_", "b">>)>>>>}

Inputs ==
    (TextsOf(WordPieces) \X LibrariesOf(WordClips))
        \cup (TextsOf(SymbolPieces) \X LibrariesOf(SymbolClips))
        \cup ExampleInputs

(***************************************************************************)
(* State.                                                                  *)
(***************************************************************************)
VARIABLES
    text,            \* the argument of getIslVideoPlaylist
    allVideoPaths,   \* what getIslVideos returns to it
    entry,           \* which definition of getIslVideoPlaylist runs:
                     \* "stitched" (part_001:719) or "plain" (part_001:1845)
    pc,              \* where the request is
    videoMap,        \* Map from normalized clip name to path
    words,           \* the tokens
    playlist,        \* the matched clips
    i,               \* the cursor
    spans,           \* history: the window <<first, last>> of each clip
    outputFileName,  \* argument of stitchVideosWithFfmpeg
    files,           \* file system: the files under the output directory,
                     \* path |-> content
    dirs,            \* file system: the directories created
    ffmpegCalls,     \* number of execAsync(ffmpegCommand) calls
    stitchedVideo,   \* what stitchVideosWithFfmpeg returned
    result,          \* what getIslVideoPlaylist returned
    announcement,    \* handleGenerateAnnouncement: the text of the English
                     \* announcement, or null when there is none
    library,         \* file system: the directory public/isl_dataset
    peer,            \* another invocation of stitchVideosWithFfmpeg, made
                     \* by another request on the same server
    route,           \* deleteTrainRoute: the call, the database tables and
                     \* the audio directories
    ticker,          \* the page of generateTextToIslHtml
    textPage,        \* TextToIslPage
    speechPage       \* SpeechToIslPage

vars == <<text, allVideoPaths, entry, pc, videoMap, words, playlist, i, spans,
          outputFileName, files, dirs, ffmpegCalls, stitchedVideo, result,
          announcement, library, peer, route, ticker, textPage, speechPage>>

\* the parts of the application a playlist request does not touch
appVars == <<route, ticker, textPage, speechPage>>

\* a part of the application that is not running
Unused == [pc |-> "none"]

matchVars == <<videoMap, words, playlist, i, spans>>
fsVars == <<files, dirs, ffmpegCalls>>
inputVars == <<text, allVideoPaths, entry, announcement, library>>

\* no other invocation runs
NoPeer ==
    [pc |-> "none", videoPaths |-> <<>>, outputFileName |-> <<>>,
     returned |-> Null]

\* the directory tree is left out: getIslVideos' result is given
NoLibrary == [state |-> "given", entries |-> <<>>]

Init ==
    /\ \E in \in Inputs : text = in[1] /\ allVideoPaths = in[2]
    /\ entry \in {"stitched", "plain"}
    /\ pc = "start"
    /\ videoMap = << >>
    /\ words = <<>>
    /\ playlist = <<>>
    /\ i = 0
    /\ spans = <<>>
    /\ outputFileName = <<>>
    /\ files = << >>
    /\ dirs = {}
    /\ ffmpegCalls = 0
    /\ stitchedVideo = Null
    /\ result = <<>>
    /\ announcement = Null
    /\ library = NoLibrary
    /\ peer = NoPeer
    /\ route = Unused
    /\ ticker = Unused
    /\ textPage = Unused
    /\ speechPage = Unused

(***************************************************************************)
(* getIslVideoPlaylist.                                                    *)
(***************************************************************************)
\* if (!text) return [];
ReturnEmptyText ==
    /\ pc = "start"
    /\ text = <<>>
    /\ result' = <<>>
    /\ pc' = "done"
    /\ UNCHANGED <<inputVars, peer, appVars, matchVars, fsVars, outputFileName, stitchedVideo>>

\* the map built from getIslVideos' paths, the tokens, playlist = [], i = 0
Prepare ==
    /\ pc = "start"
    /\ text # <<>>
    /\ videoMap' = BuildVideoMap(allVideoPaths)
    /\ words' = Tokenize(text)
    /\ playlist' = <<>>
    /\ i' = 0
    /\ pc' = "loop"
    /\ UNCHANGED <<inputVars, peer, appVars, spans, fsVars, outputFileName, stitchedVideo, result>>

\* one iteration of while (i < words.length)
LoopIteration ==
    /\ pc = "loop"
    /\ i < Len(words)
    /\ LET s == LoopStep(words, videoMap, i, playlist)
       IN  /\ i' = s.i
           /\ playlist' = s.playlist
           /\ spans' = IF Len(s.playlist) > Len(playlist)
                       THEN Append(spans, <<i, s.i - 1>>)
                       ELSE spans
    /\ UNCHANGED <<inputVars, peer, appVars, pc, videoMap, words, fsVars, outputFileName,
                   stitchedVideo, result>>

\* part_001:1881, return playlist
ReturnPlaylist ==
    /\ pc = "loop"
    /\ ~(i < Len(words))
    /\ entry = "plain"
    /\ result' = playlist
    /\ pc' = "done"
    /\ UNCHANGED <<inputVars, peer, appVars, matchVars, fsVars, outputFileName, stitchedVideo>>

\* part_001:757-763 with an empty playlist
ReturnNoMatch ==
    /\ pc = "loop"
    /\ ~(i < Len(words))
    /\ entry = "stitched"
    /\ ~(Len(playlist) > 0)
    /\ result' = <<>>
    /\ pc' = "done"
    /\ UNCHANGED <<inputVars, peer, appVars, matchVars, fsVars, outputFileName, stitchedVideo>>

(***************************************************************************)
(* stitchVideosWithFfmpeg, one action per awaited step.                    *)
(***************************************************************************)
\* fs.writeFile(path, content)
WriteFileTo(fs, path, content) ==
    [q \in DOMAIN fs \cup {path} |-> IF q = path THEN content ELSE fs[q]]

\* fs.unlink(path)
Unlinked(fs, path) == [q \in DOMAIN fs \ {path} |-> fs[q]]

\* stitchVideosWithFfmpeg returns v and getIslVideoPlaylist returns
\* stitchedVideo ? [stitchedVideo] : []
StitchReturns(v) ==
    /\ stitchedVideo' = v
    /\ result' = ResultOf(v)
    /\ pc' = "done"

\* faulty variant: no early return for a single path, which is stitched like many
CallStitchNoSingletonReturn ==
    /\ pc = "loop"
    /\ ~(i < Len(words))
    /\ entry = "stitched"
    /\ Len(playlist) > 0
    /\ \E now \in 0..MaxClock : outputFileName' = OutputFileName(now)
    /\ IF Len(playlist) = 0 THEN StitchReturns(Null)
       ELSE pc' = "mkdir" /\ UNCHANGED <<stitchedVideo, result>>
    /\ UNCHANGED <<inputVars, peer, appVars, matchVars, fsVars>>

\* part_001:757-759 and 682-684: the call, and its two early returns
CallStitch ==
    /\ pc = "loop"
    /\ ~(i < Len(words))
    /\ entry = "stitched"
    /\ Len(playlist) > 0
    /\ \E now \in 0..MaxClock : outputFileName' = OutputFileName(now)
    /\ IF Len(playlist) = 0 THEN StitchReturns(Null)
       ELSE IF Len(playlist) = 1 THEN StitchReturns(<<playlist[1]>>)
       ELSE pc' = "mkdir" /\ UNCHANGED <<stitchedVideo, result>>
    /\ UNCHANGED <<inputVars, peer, appVars, matchVars, fsVars>>

\* await fs.mkdir(outputDir, { recursive: true }); a rejection is caught
Mkdir ==
    /\ pc = "mkdir"
    /\ \E ok \in BOOLEAN :
          IF ok
          THEN /\ dirs' = dirs \cup {OutputDir}
               /\ pc' = "writeFile"
               /\ UNCHANGED <<stitchedVideo, result>>
          ELSE StitchReturns(Null) /\ UNCHANGED dirs
    /\ UNCHANGED <<inputVars, peer, appVars, matchVars, outputFileName, files, ffmpegCalls>>

\* await fs.writeFile(tempListPath, fileListContent)
WriteList ==
    /\ pc = "writeFile"
    /\ \E ok \in BOOLEAN :
          IF ok
          THEN /\ files' = WriteFileTo(files, TempListPath, FileListContent(playlist))
               /\ pc' = "exec"
               /\ UNCHANGED <<stitchedVideo, result>>
          ELSE StitchReturns(Null) /\ UNCHANGED files
    /\ UNCHANGED <<inputVars, peer, appVars, matchVars, outputFileName, dirs, ffmpegCalls>>

\* faulty variant: a failed tool run falls back to the unstitched clips
ExecFfmpegFallsBack ==
    /\ pc = "exec"
    /\ ffmpegCalls' = ffmpegCalls + 1
    /\ \E ok \in BOOLEAN :
          IF ok /\ TempListPath \in DOMAIN files
          THEN /\ files' = WriteFileTo(files, OutputPath(outputFileName),
                                       ListedFiles(files[TempListPath]))
               /\ pc' = "unlink"
               /\ UNCHANGED <<stitchedVideo, result>>
          ELSE /\ stitchedVideo' = Null
               /\ result' = playlist
               /\ pc' = "done"
               /\ UNCHANGED files
    /\ UNCHANGED <<inputVars, peer, appVars, matchVars, outputFileName, dirs>>

\* await execAsync(ffmpegCommand): ffmpeg reads the list file as it is now
\* and writes the concatenation of the files it lists to outputPath, or
\* fails (no binary, unreadable list or clip, non-zero exit)
ExecFfmpeg ==
    /\ pc = "exec"
    /\ ffmpegCalls' = ffmpegCalls + 1
    /\ \E ok \in BOOLEAN :
          IF ok /\ TempListPath \in DOMAIN files
          THEN /\ files' = WriteFileTo(files, OutputPath(outputFileName),
                                       ListedFiles(files[TempListPath]))
               /\ pc' = "unlink"
               /\ UNCHANGED <<stitchedVideo, result>>
          ELSE StitchReturns(Null) /\ UNCHANGED files
    /\ UNCHANGED <<inputVars, peer, appVars, matchVars, outputFileName, dirs>>

\* await fs.unlink(tempListPath).catch(() => {}); return outputPath.replace(...)
UnlinkAndReturn ==
    /\ pc = "unlink"
    /\ \E ok \in BOOLEAN :
          files' = IF ok THEN Unlinked(files, TempListPath) ELSE files
    /\ StitchReturns(<<ReturnedPath(OutputPath(outputFileName))>>)
    /\ UNCHANGED <<inputVars, peer, appVars, matchVars, outputFileName, dirs, ffmpegCalls>>

Next ==
    \/ ReturnEmptyText
    \/ Prepare
    \/ LoopIteration
    \/ ReturnPlaylist
    \/ ReturnNoMatch
    \/ CallStitch
    \/ Mkdir
    \/ WriteList
    \/ ExecFfmpeg
    \/ UnlinkAndReturn

Spec == Init /\ [][Next]_vars

(***************************************************************************)
(* Two invocations of stitchVideosWithFfmpeg on one server: the request's  *)
(* and a peer's.  The peer runs the same function, one action per awaited  *)
(* step, on the same output directory; its arguments are given.            *)
(***************************************************************************)
peerFrame ==
    <<inputVars, appVars, matchVars, pc, outputFileName, stitchedVideo, result>>

\* stitchVideosWithFfmpeg returns v to the peer's caller
PeerReturns(v) == peer' = [peer EXCEPT !.pc = "done", !.returned = v]

PeerGoesTo(step) == peer' = [peer EXCEPT !.pc = step]

\* faulty variant: no early return for an empty list
PeerCallNoEmptyReturn ==
    /\ peer.pc = "call"
    /\ IF Len(peer.videoPaths) = 1 THEN PeerReturns(<<peer.videoPaths[1]>>)
       ELSE PeerGoesTo("mkdir")
    /\ UNCHANGED <<peerFrame, fsVars>>

\* part_001:682-684: the call, and its two early returns
PeerCall ==
    /\ peer.pc = "call"
    /\ IF Len(peer.videoPaths) = 0 THEN PeerReturns(Null)
       ELSE IF Len(peer.videoPaths) = 1 THEN PeerReturns(<<peer.videoPaths[1]>>)
       ELSE PeerGoesTo("mkdir")
    /\ UNCHANGED <<peerFrame, fsVars>>

PeerMkdir ==
    /\ peer.pc = "mkdir"
    /\ \E ok \in BOOLEAN :
          IF ok
          THEN dirs' = dirs \cup {OutputDir} /\ PeerGoesTo("writeFile")
          ELSE PeerReturns(Null) /\ UNCHANGED dirs
    /\ UNCHANGED <<peerFrame, files, ffmpegCalls>>

PeerWriteList ==
    /\ peer.pc = "writeFile"
    /\ \E ok \in BOOLEAN :
          IF ok
          THEN /\ files' = WriteFileTo(files, TempListPath,
                                       FileListContent(peer.videoPaths))
               /\ PeerGoesTo("exec")
          ELSE PeerReturns(Null) /\ UNCHANGED files
    /\ UNCHANGED <<peerFrame, dirs, ffmpegCalls>>

PeerExecFfmpeg ==
    /\ peer.pc = "exec"
    /\ ffmpegCalls' = ffmpegCalls + 1
    /\ \E ok \in BOOLEAN :
          IF ok /\ TempListPath \in DOMAIN files
          THEN /\ files' = WriteFileTo(files, OutputPath(peer.outputFileName),
                                       ListedFiles(files[TempListPath]))
               /\ PeerGoesTo("unlink")
          ELSE PeerReturns(Null) /\ UNCHANGED files
    /\ UNCHANGED <<peerFrame, dirs>>

PeerUnlinkAndReturn ==
    /\ peer.pc = "unlink"
    /\ \E ok \in BOOLEAN :
          files' = IF ok /\ TempListPath \in DOMAIN files
                   THEN Unlinked(files, TempListPath) ELSE files
    /\ PeerReturns(<<ReturnedPath(OutputPath(peer.outputFileName))>>)
    /\ UNCHANGED <<peerFrame, dirs, ffmpegCalls>>

\* the requests of the two-invocation specification: two clips matched, or one
TwoInputs ==
    {<<<<"a", " ", "b">>, <<ClipPath(<<>>, <<"a">>), ClipPath(<<>>, <<"b">>)>>>>,
     <<<<"a">>, <<ClipPath(<<>>, <<"a">>)>>>>}

\* the clips the peer is called with
PeerClips == {ClipPath(<<>>, <<"a">>), ClipPath(<<>>, <<"b">>)}

\* the peer's caller named the output as part_001:758 does
InitTwo ==
    /\ \E in \in TwoInputs : text = in[1] /\ allVideoPaths = in[2]
    /\ entry = "stitched"
    /\ pc = "start"
    /\ videoMap = << >>
    /\ words = <<>>
    /\ playlist = <<>>
    /\ i = 0
    /\ spans = <<>>
    /\ outputFileName = <<>>
    /\ files = << >>
    /\ dirs = {}
    /\ ffmpegCalls = 0
    /\ stitchedVideo = Null
    /\ result = <<>>
    /\ announcement = Null
    /\ library = NoLibrary
    /\ \E paths \in SeqsUpTo(PeerClips, MaxClips), now \in 0..MaxClock :
          peer = [pc |-> "call", videoPaths |-> paths,
                  outputFileName |-> OutputFileName(now), returned |-> Null]
    /\ route = Unused
    /\ ticker = Unused
    /\ textPage = Unused
    /\ speechPage = Unused

NextTwo ==
    \/ Prepare
    \/ LoopIteration
    \/ CallStitch
    \/ Mkdir
    \/ WriteList
    \/ ExecFfmpeg
    \/ UnlinkAndReturn
    \/ PeerCall
    \/ PeerMkdir
    \/ PeerWriteList
    \/ PeerExecFfmpeg
    \/ PeerUnlinkAndReturn

SpecTwo == InitTwo /\ [][NextTwo]_vars

(***************************************************************************)
(* handleGenerateAnnouncement: a playlist request made for the English     *)
(* announcement text that generateAnnouncement produced.                   *)
(***************************************************************************)
\* part_001:769-776 (digits set apart) and 1887-1892 (text passed as it is)
HandleGenerateAnnouncement ==
    /\ pc = "handle"
    /\ IF announcement # Null /\ announcement[1] # <<>>
       THEN /\ text' = IF entry = "stitched"
                       THEN NormalizeDigits(announcement[1])
                       ELSE announcement[1]
            /\ pc' = "start"
            /\ UNCHANGED result
       ELSE /\ result' = <<>>
            /\ pc' = "done"
            /\ UNCHANGED text
    /\ UNCHANGED <<allVideoPaths, entry, announcement, library, peer, appVars, matchVars,
                   fsVars, outputFileName, stitchedVideo>>

\* announcement texts: numbers of two digits, a digit inside a word, gaps
DigitPieces == {<<"1", "2">>, <<"a", "1">>, <<>>}

DigitClips ==
    {ClipPath(<<>>, <<"1">>), ClipPath(<<>>, <<"2">>),
     ClipPath(<<>>, <<"1", "_", "2">>), ClipPath(<<>>, <<"a">>)}

Train12Arriving ==
    <<"T", "r", "a", "i", "n", " ", "1", "2", " ", "a", "r", "r", "i", "v",
      "i", "n", "g">>

AnnouncementInputs ==
    ({<<t>> : t \in TextsOf(DigitPieces)} \X LibrariesOf(DigitClips))
    \cup {<<Null, <<>>>>,
          <<<<Train12Arriving>>,
            <<ClipPath(<<>>, <<"1">>), ClipPath(<<>>, <<"2">>)>>>>,
          <<<<Train12Arriving>>,
            <<ClipPath(<<>>, <<"2">>),
              ClipPath(<<>>, <<"t", "r", "a", "i", "n", "_", "1">>)>>>>}

InitAnnounce ==
    /\ \E in \in AnnouncementInputs :
          announcement = in[1] /\ allVideoPaths = in[2]
    /\ entry \in {"stitched", "plain"}
    /\ pc = "handle"
    /\ text = <<>>
    /\ videoMap = << >>
    /\ words = <<>>
    /\ playlist = <<>>
    /\ i = 0
    /\ spans = <<>>
    /\ outputFileName = <<>>
    /\ files = << >>
    /\ dirs = {}
    /\ ffmpegCalls = 0
    /\ stitchedVideo = Null
    /\ result = <<>>
    /\ library = NoLibrary
    /\ peer = NoPeer
    /\ route = Unused
    /\ ticker = Unused
    /\ textPage = Unused
    /\ speechPage = Unused

NextAnnounce ==
    \/ HandleGenerateAnnouncement
    \/ Prepare
    \/ LoopIteration
    \/ ReturnPlaylist
    \/ ReturnNoMatch
    \/ CallStitch
    \/ Mkdir
    \/ WriteList
    \/ ExecFfmpeg
    \/ UnlinkAndReturn

SpecAnnounce == InitAnnounce /\ [][NextAnnounce]_vars

(***************************************************************************)
(* A playlist request whose library is read from the directory tree.       *)
(***************************************************************************)
\* part_001:722-733, getIslVideos called on the tree as it is
PrepareFromLibrary ==
    /\ pc = "start"
    /\ text # <<>>
    /\ LET found == GetIslVideos(library)
       IN  allVideoPaths' = found /\ videoMap' = BuildVideoMap(found)
    /\ words' = Tokenize(text)
    /\ playlist' = <<>>
    /\ i' = 0
    /\ pc' = "loop"
    /\ UNCHANGED <<text, entry, announcement, library, peer, appVars, spans, fsVars,
                   outputFileName, stitchedVideo, result>>

\* the entries of the root directory: clips, a file that is no clip, an
\* entry that is neither file nor directory (a symbolic link) named like a
\* clip, and subdirectories, readable or not, one named like a clip
NameA == <<"a">> \o Mp4
NameB == <<"b">> \o Mp4
NameC == <<"c", ".", "t", "x", "t">>

SubdirContents == {<<>>, <<File(NameB)>>, <<File(NameC), File(NameA)>>}

RootEntryChoices ==
    {File(NameA), File(NameB), File(NameC), Other(NameA)}
    \cup {Dir(n, r, c) : n \in {<<"d">>, <<"d">> \o Mp4}, r \in BOOLEAN,
                         c \in SubdirContents}

\* the names of a directory's entries differ
DistinctNames(es) == \A k, l \in 1..Len(es) : es[k].name = es[l].name => k = l

RootEntries == {es \in SeqsUpTo(RootEntryChoices, MaxEntries) : DistinctNames(es)}

\* deeper trees: an unreadable directory beside clips, below a readable one
DeepEntries ==
    {<<Dir(<<"d">>, TRUE, <<Dir(<<"u">>, FALSE, <<File(NameA)>>), File(NameB)>>),
       File(NameA)>>,
     <<Dir(<<"d">>, TRUE, <<Dir(<<"e">>, TRUE, <<File(NameB)>>)>>), File(NameA)>>,
     <<Dir(<<"d">>, TRUE,
           <<File(NameA), Dir(<<"u">>, FALSE, <<File(NameB)>>), File(NameB)>>)>>}

Libraries ==
    {[state |-> "ok", entries |-> es] : es \in RootEntries \cup DeepEntries}
    \cup {[state |-> st, entries |-> es] :
             st \in {"missing", "unreadable"},
             es \in {<<>>, <<File(NameA), File(NameB)>>}}

InitIndex ==
    /\ library \in Libraries
    /\ text = <<"a", " ", "b">>
    /\ allVideoPaths = <<>>
    /\ entry \in {"stitched", "plain"}
    /\ pc = "start"
    /\ videoMap = << >>
    /\ words = <<>>
    /\ playlist = <<>>
    /\ i = 0
    /\ spans = <<>>
    /\ outputFileName = <<>>
    /\ files = << >>
    /\ dirs = {}
    /\ ffmpegCalls = 0
    /\ stitchedVideo = Null
    /\ result = <<>>
    /\ announcement = Null
    /\ peer = NoPeer
    /\ route = Unused
    /\ ticker = Unused
    /\ textPage = Unused
    /\ speechPage = Unused

NextIndex ==
    \/ PrepareFromLibrary
    \/ LoopIteration
    \/ ReturnPlaylist
    \/ ReturnNoMatch
    \/ CallStitch
    \/ Mkdir
    \/ WriteList
    \/ ExecFfmpeg
    \/ UnlinkAndReturn

SpecIndex == InitIndex /\ [][NextIndex]_vars

(***************************************************************************)
(* The same request with the scheduling of the runtime: a continuation     *)
(* that can run does run, and the awaited file-system calls settle.  The   *)
(* tool run by execAsync is a process of its own, started without timeout  *)
(* (part_001:707): nothing makes it end.                                   *)
(***************************************************************************)
\* the continuation of await getIslVideos() (part_001:722) runs.  In
\* SpecIndex PrepareFromLibrary is enabled exactly when pc = "start" and is
\* the only step that leaves "start", so weak fairness of it is that the
\* request is not at "start" for ever
LibraryRead == []<>(pc # "start")

IndexProgress ==
    \/ LoopIteration
    \/ ReturnPlaylist
    \/ ReturnNoMatch
    \/ CallStitch
    \/ Mkdir
    \/ WriteList
    \/ UnlinkAndReturn

SpecIndexLive ==
    InitIndex /\ [][NextIndex]_vars /\ WF_vars(IndexProgress) /\ LibraryRead

(***************************************************************************)
(* deleteTrainRoute(id) and the clearAudioForRoute(id) it calls, one       *)
(* action per awaited call.  route.routes is the table train_routes (rows  *)
(* of id and train number), route.audio the route_id values that have      *)
(* rows in train_route_audio, route.audioDirs the train numbers that have  *)
(* a directory public/audio/<train number>.                                *)
(***************************************************************************)
\* the variables of a playlist request
requestVars ==
    <<inputVars, peer, matchVars, fsVars, pc, outputFileName, stitchedVideo, result>>

RouteIds == 1..MaxRoutes

TrainNumbers == {<<"1", "0", "1">>, <<"1", "0", "2">>}

\* the tables train_routes can be: a train number for each id of some ids
RouteTables ==
    UNION {{{[id |-> n, train_number |-> f[n]] : n \in S} : f \in [S -> TrainNumbers]}
           : S \in SUBSET RouteIds}

\* SELECT train_number FROM train_routes WHERE id = ?: a row or undefined
RowOf(table, id) ==
    IF \E r \in table : r.id = id
    THEN <<CHOOSE r \in table : r.id = id>>
    ELSE Null

\* a rejected promise that nothing catches leaves the server action
RouteThrows == route' = [route EXCEPT !.pc = "thrown"]

\* const db = await getDb()                                  (part_001:185)
DeleteOpen ==
    /\ route.pc = "deleteTrainRoute"
    /\ \E ok \in BOOLEAN :
          IF ok THEN route' = [route EXCEPT !.pc = "delete_run"] ELSE RouteThrows
    /\ UNCHANGED <<requestVars, ticker, textPage, speechPage>>

\* await db.run('DELETE FROM train_routes WHERE id = ?', id)  (part_001:186);
\* the rows of train_route_audio go with it when SQLite enforces foreign
\* keys (ON DELETE CASCADE, part_001:75), which depends on how it was built
DeleteRow ==
    /\ route.pc = "delete_run"
    /\ \E ok \in BOOLEAN :
          IF ok
          THEN route' = [route EXCEPT
                            !.pc = "clear_open",
                            !.routes = {r \in route.routes : r.id # route.id},
                            !.audio = IF route.foreignKeys
                                      THEN route.audio \ {route.id}
                                      ELSE route.audio]
          ELSE RouteThrows
    /\ UNCHANGED <<requestVars, ticker, textPage, speechPage>>

\* clearAudioForRoute: const db = await getDb(), before its try (part_001:370)
ClearOpen ==
    /\ route.pc = "clear_open"
    /\ \E ok \in BOOLEAN :
          IF ok THEN route' = [route EXCEPT !.pc = "clear_get"] ELSE RouteThrows
    /\ UNCHANGED <<requestVars, ticker, textPage, speechPage>>

\* const route = await db.get('SELECT train_number ...')      (part_001:372);
\* a rejection inside the try is caught and thrown again as
\* Error('Failed to clear audio files.') (part_001:386-390)
ClearGet ==
    /\ route.pc = "clear_get"
    /\ \E ok \in BOOLEAN :
          IF ok
          THEN route' = [route EXCEPT !.pc = "clear_rm",
                                      !.row = RowOf(route.routes, route.id)]
          ELSE RouteThrows
    /\ UNCHANGED <<requestVars, ticker, textPage, speechPage>>

\* if (route && route.train_number) await fs.rm(audioDir, ...) (part_001:374-377)
ClearRm ==
    /\ route.pc = "clear_rm"
    /\ IF route.row # Null /\ route.row[1].train_number # <<>>
       THEN \E ok \in BOOLEAN :
               IF ok
               THEN route' = [route EXCEPT
                                 !.pc = "clear_rows",
                                 !.audioDirs = route.audioDirs
                                                 \ {route.row[1].train_number}]
               ELSE RouteThrows
       ELSE route' = [route EXCEPT !.pc = "clear_rows"]
    /\ UNCHANGED <<requestVars, ticker, textPage, speechPage>>

\* await db.run('DELETE FROM train_route_audio WHERE route_id = ?') (part_001:379)
ClearRows ==
    /\ route.pc = "clear_rows"
    /\ \E ok \in BOOLEAN :
          IF ok
          THEN route' = [route EXCEPT !.pc = "clear_close",
                                      !.audio = route.audio \ {route.id}]
          ELSE RouteThrows
    /\ UNCHANGED <<requestVars, ticker, textPage, speechPage>>

\* await db.close(); revalidatePath(...); return { message }  (part_001:381-384)
ClearClose ==
    /\ route.pc = "clear_close"
    /\ \E ok \in BOOLEAN :
          IF ok THEN route' = [route EXCEPT !.pc = "delete_close"] ELSE RouteThrows
    /\ UNCHANGED <<requestVars, ticker, textPage, speechPage>>

\* await db.close(); revalidatePath(...); return { message }  (part_001:188-190)
DeleteClose ==
    /\ route.pc = "delete_close"
    /\ \E ok \in BOOLEAN :
          IF ok THEN route' = [route EXCEPT !.pc = "returned"] ELSE RouteThrows
    /\ UNCHANGED <<requestVars, ticker, textPage, speechPage>>

\* no playlist request runs
NoRequest ==
    /\ text = <<>>
    /\ allVideoPaths = <<>>
    /\ entry = "stitched"
    /\ pc = "none"
    /\ videoMap = << >>
    /\ words = <<>>
    /\ playlist = <<>>
    /\ i = 0
    /\ spans = <<>>
    /\ outputFileName = <<>>
    /\ files = << >>
    /\ dirs = {}
    /\ ffmpegCalls = 0
    /\ stitchedVideo = Null
    /\ result = <<>>
    /\ announcement = Null
    /\ library = NoLibrary
    /\ peer = NoPeer

\* route.target is the row of the route as deleteTrainRoute is called, and
\* route.hadAudio whether it had audio rows and an audio directory then
InitRoute ==
    /\ NoRequest
    /\ \E id \in RouteIds, table \in RouteTables, audio \in SUBSET RouteIds,
          audioDirs \in SUBSET TrainNumbers, foreignKeys \in BOOLEAN :
          route = [pc |-> "deleteTrainRoute", id |-> id, routes |-> table,
                   audio |-> audio, audioDirs |-> audioDirs,
                   foreignKeys |-> foreignKeys, row |-> Null,
                   target |-> RowOf(table, id),
                   hadAudio |-> /\ RowOf(table, id) # Null
                                /\ id \in audio
                                /\ RowOf(table, id)[1].train_number \in audioDirs]
    /\ ticker = Unused
    /\ textPage = Unused
    /\ speechPage = Unused

NextRoute ==
    \/ DeleteOpen
    \/ DeleteRow
    \/ ClearOpen
    \/ ClearGet
    \/ ClearRm
    \/ ClearRows
    \/ ClearClose
    \/ DeleteClose

SpecRoute == InitRoute /\ [][NextRoute]_vars

(***************************************************************************)
(* The page generateTextToIslHtml produces.  ticker holds what the         *)
(* function computes (announcementData, audioSources, videoSources) and    *)
(* the state of the page's script: its variables, the ticker element, and  *)
(* the two audio elements.  The width adjustment updateTickerText defers   *)
(* by 50 ms changes only the style of the ticker's wrapper and is left     *)
(* out.                                                                    *)
(***************************************************************************)
\* the keys of translations and audioFiles, in the order they are declared
Langs == <<"en", "mr", "hi", "gu">>

LangSet == {Langs[k] : k \in 1..Len(Langs)}

\* window.location.origin
Origin == <<"http://localhost:3000">>

\* the text of a language and the path of its audio file
TranslationIn(lang) == <<"text in ", lang>>

AudioPathOf(lang) == <<"/text_to_isl/audio/", lang, ".wav">>

IslVideoPath == <<"/isl_video/v.mp4">>

\* translations: every key holds a string, which may be empty
TranslationChoices ==
    {f \in [LangSet -> {<<>>} \cup {TranslationIn(l) : l \in LangSet}] :
        \A l \in LangSet : f[l] \in {<<>>, TranslationIn(l)}}

\* audioFiles: every key is optional
AudioFileChoices ==
    {f \in [LangSet -> {Null} \cup {<<AudioPathOf(l)>> : l \in LangSet}] :
        \A l \in LangSet : f[l] \in {Null, <<AudioPathOf(l)>>}}

\* Object.entries(translations).filter(...).map(...)        (part_003:211-217)
AnnouncementDataOf(translations, audioFiles) ==
    LET kept == SelectSeq(Langs, LAMBDA l : /\ translations[l] # <<>>
                                            /\ audioFiles[l] # Null
                                            /\ audioFiles[l][1] # <<>>)
    IN  [k \in 1..Len(kept) |->
            [language_code |-> kept[k],
             text |-> translations[kept[k]],
             audio_path |-> audioFiles[kept[k]]]]

\* Object.values(audioFiles).filter(p => p !== null)        (part_003:221)
AudioPathsOf(audioFiles) ==
    LET kept == SelectSeq(Langs, LAMBDA l : audioFiles[l] # Null)
    IN  [k \in 1..Len(kept) |-> audioFiles[kept[k]][1]]

\* audioSources.map(path => origin + path)                  (part_003:231)
WithOrigin(paths) == [k \in 1..Len(paths) |-> Origin \o paths[k]]

\* updateTickerText(languageCode)                           (part_003:349-369)
UpdateTickerText(t, languageCode) ==
    IF \E k \in 1..Len(t.announcementData) :
          t.announcementData[k].language_code = languageCode
    THEN LET first == CHOOSE k \in 1..Len(t.announcementData) :
                         /\ t.announcementData[k].language_code = languageCode
                         /\ \A j \in 1..(k - 1) :
                               t.announcementData[j].language_code # languageCode
         IN  [t EXCEPT !.textContent = t.announcementData[first].text,
                       !.class = "active"]
    ELSE t

\* fadeTickerText()                                         (part_003:371-376)
FadeTickerText(t) == [t EXCEPT !.class = "fade"]

\* playIntroThenAnnouncement(); played tells whether introAudio.play()
\* started the intro                                        (part_003:378-401)
PlayIntroThenAnnouncement(t, played) ==
    IF Len(t.audioSources) = 0
    THEN t
    ELSE [FadeTickerText(t) EXCEPT
             !.isPlayingIntro = TRUE,
             !.onended = TRUE,
             !.intro = IF played THEN "playing" ELSE t.intro]

\* startPlayback(), which the load listener and the DOM-ready fallback
\* both call                                                (part_003:403-438)
StartPlayback ==
    /\ ticker.pc = "page"
    /\ ticker.starts < StartCalls
    /\ \E played \in BOOLEAN :
          LET t0 == [ticker EXCEPT !.starts = ticker.starts + 1,
                                   !.videoSrc = <<ticker.videoSources[1]>>]
              t1 == [t0 EXCEPT !.isPlaying = TRUE]
              t2 == IF Len(t1.announcementData) > 0
                    THEN UpdateTickerText(t1, t1.announcementData[1].language_code)
                    ELSE t1
          IN  ticker' = IF Len(ticker.audioSources) > 0
                        THEN PlayIntroThenAnnouncement(t2, played)
                        ELSE t0
    /\ UNCHANGED <<requestVars, route, textPage, speechPage>>

\* the intro ends: introAudio.onended; played tells whether
\* audioPlayer.play() started the announcement              (part_003:386-398).
\* audioSources[currentAudioIndex] past the end is undefined, which plays
\* nothing.  shownAtStart is the ticker's text as the announcement starts.
IntroEnded ==
    /\ ticker.pc = "page"
    /\ ticker.intro = "playing"
    /\ \E played \in BOOLEAN :
          LET k == ticker.currentAudioIndex
              has == k < Len(ticker.audioSources)
              t0 == [ticker EXCEPT !.intro = "idle",
                                   !.isPlayingIntro = FALSE,
                                   !.audioSrc = IF has
                                                THEN <<ticker.audioSources[k + 1]>>
                                                ELSE Null]
              t1 == IF k < Len(t0.announcementData)
                    THEN UpdateTickerText(t0, t0.announcementData[k + 1].language_code)
                    ELSE t0
          IN  ticker' = IF ticker.onended
                        THEN [t1 EXCEPT
                                 !.audio = IF has /\ played THEN "playing" ELSE "idle",
                                 !.shownAtStart = IF has /\ played
                                                  THEN t1.textContent
                                                  ELSE ticker.shownAtStart,
                                 !.currentAudioIndex = k + 1]
                        ELSE [ticker EXCEPT !.intro = "idle"]
    /\ UNCHANGED <<requestVars, route, textPage, speechPage>>

\* the announcement ends: audioPlayer's 'ended' listener    (part_003:441-454)
AudioEnded ==
    /\ ticker.pc = "page"
    /\ ticker.audio = "playing"
    /\ \E played \in BOOLEAN :
          LET t0 == [ticker EXCEPT !.audio = "idle"]
          IN  ticker' =
                 IF t0.isPlaying /\ t0.currentAudioIndex < Len(t0.audioSources)
                 THEN PlayIntroThenAnnouncement(t0, played)
                 ELSE IF t0.isPlaying
                      THEN [t0 EXCEPT !.currentAudioIndex = 0,
                                      !.timers = t0.timers + 1]
                      ELSE t0
    /\ UNCHANGED <<requestVars, route, textPage, speechPage>>

\* the 1 second pause before the cycle restarts is over     (part_003:448-452)
RestartTimer ==
    /\ ticker.pc = "page"
    /\ ticker.timers > 0
    /\ \E played \in BOOLEAN :
          LET t0 == [ticker EXCEPT !.timers = ticker.timers - 1]
          IN  ticker' = IF t0.isPlaying
                        THEN PlayIntroThenAnnouncement(t0, played)
                        ELSE t0
    /\ UNCHANGED <<requestVars, route, textPage, speechPage>>

\* the page as its script has run, for every combination of translations
\* and audio files
InitTicker ==
    /\ NoRequest
    /\ \E translations \in TranslationChoices, audioFiles \in AudioFileChoices :
          ticker = [pc |-> "page",
                    translations |-> translations,
                    audioFiles |-> audioFiles,
                    announcementData |-> AnnouncementDataOf(translations, audioFiles),
                    audioSources |-> WithOrigin(AudioPathsOf(audioFiles)),
                    videoSources |-> WithOrigin(<<IslVideoPath>>),
                    currentAudioIndex |-> 0,
                    isPlaying |-> FALSE,
                    isPlayingIntro |-> FALSE,
                    onended |-> FALSE,
                    textContent |-> <<>>,
                    class |-> "",
                    videoSrc |-> Null,
                    audioSrc |-> Null,
                    intro |-> "idle",
                    audio |-> "idle",
                    timers |-> 0,
                    starts |-> 0,
                    shownAtStart |-> <<>>]
    /\ route = Unused
    /\ textPage = Unused
    /\ speechPage = Unused

NextTicker ==
    \/ StartPlayback
    \/ IntroEnded
    \/ AudioEnded
    \/ RestartTimer

SpecTicker == InitTicker /\ [][NextTicker]_vars

(***************************************************************************)
(* TextToIslPage: the component's state and its handlers.  A call of       *)
(* getIslVideoPlaylist is in flight from the click that sends it to the    *)
(* step that receives its answer; textPage.sent lists the texts the calls  *)
(* were made with, and the stitched video a call returns is named by the   *)
(* number of the call.                                                     *)
(***************************************************************************)
\* what the user types into the input
InputTexts == {<<>>, <<"a">>, <<"b">>, <<" ">>}

\* the languages of the Select
SourceLangs == {"en", "hi"}

\* !s.trim()
TrimsToEmpty(s) == \A k \in 1..Len(s) : s[k] \in WhiteSpace

\* what translateInputText can answer
Translations == {<<>>, <<"a">>, <<"b">>}

\* onChange of the Textarea and onValueChange of the Select (page.tsx:232, 263)
ChangeInput ==
    /\ textPage.pc = "page"
    /\ \E t \in InputTexts, lang \in SourceLangs :
          textPage' = [textPage EXCEPT !.inputText = t, !.selectedLang = lang]
    /\ UNCHANGED <<requestVars, route, ticker, speechPage>>

\* handleTranslateClick (page.tsx:98-124), which the Translate button
\* offers unless isTranslating || !inputText (293)
HandleTranslateClick ==
    /\ textPage.pc = "page"
    /\ ~textPage.isTranslating
    /\ textPage.inputText # <<>>
    /\ textPage' =
          IF TrimsToEmpty(textPage.inputText)
          THEN textPage
          ELSE IF textPage.selectedLang = "en"
               THEN [textPage EXCEPT !.translatedText = textPage.inputText,
                                     !.islPlaylist = <<>>]
               ELSE [textPage EXCEPT !.isTranslating = TRUE,
                                     !.translatedText = <<>>,
                                     !.islPlaylist = <<>>,
                                     !.translating = TRUE]
    /\ UNCHANGED <<requestVars, route, ticker, speechPage>>

\* translateInputText answers or throws (page.tsx:111-122)
TranslateReturns ==
    /\ textPage.pc = "page"
    /\ textPage.translating
    /\ \E ok \in BOOLEAN, answer \in Translations :
          textPage' = [textPage EXCEPT
                          !.translating = FALSE,
                          !.isTranslating = FALSE,
                          !.translatedText = IF ok THEN answer
                                             ELSE textPage.translatedText]
    /\ UNCHANGED <<requestVars, route, ticker, speechPage>>

\* handleGenerateVideoClick up to its await (page.tsx:126-131), which the
\* Generate button offers unless isGeneratingVideo || !translatedText (297)
HandleGenerateVideoClick ==
    /\ textPage.pc = "page"
    /\ ~textPage.isGeneratingVideo
    /\ textPage.translatedText # <<>>
    /\ Len(textPage.sent) < MaxGenerations
    /\ textPage' =
          IF TrimsToEmpty(textPage.translatedText)
          THEN textPage
          ELSE [textPage EXCEPT
                   !.isGeneratingVideo = TRUE,
                   !.sent = Append(textPage.sent, textPage.translatedText),
                   !.inFlight = Len(textPage.sent) + 1]
    /\ UNCHANGED <<requestVars, route, ticker, speechPage>>

\* getIslVideoPlaylist answers with no video or one, or throws
\* (page.tsx:131-142)
GenerateReturns ==
    /\ textPage.pc = "page"
    /\ textPage.inFlight # 0
    /\ \E ok \in BOOLEAN, answer \in {<<>>, <<textPage.inFlight>>} :
          textPage' = [textPage EXCEPT
                          !.inFlight = 0,
                          !.isGeneratingVideo = FALSE,
                          !.islPlaylist = IF ok THEN answer
                                          ELSE textPage.islPlaylist]
    /\ UNCHANGED <<requestVars, route, ticker, speechPage>>

\* handleClearInput (page.tsx:145-149), offered unless !inputText (256)
HandleClearInput ==
    /\ textPage.pc = "page"
    /\ textPage.inputText # <<>>
    /\ textPage' = [textPage EXCEPT !.inputText = <<>>,
                                    !.translatedText = <<>>,
                                    !.islPlaylist = <<>>]
    /\ UNCHANGED <<requestVars, route, ticker, speechPage>>

\* handleClearTranslation (page.tsx:151-154), offered unless !translatedText (281)
HandleClearTranslation ==
    /\ textPage.pc = "page"
    /\ textPage.translatedText # <<>>
    /\ textPage' = [textPage EXCEPT !.translatedText = <<>>,
                                    !.islPlaylist = <<>>]
    /\ UNCHANGED <<requestVars, route, ticker, speechPage>>

\* the useState initial values (page.tsx:89-94)
InitTextPage ==
    /\ NoRequest
    /\ textPage = [pc |-> "page",
                   selectedLang |-> "en",
                   inputText |-> <<>>,
                   translatedText |-> <<>>,
                   islPlaylist |-> <<>>,
                   isTranslating |-> FALSE,
                   isGeneratingVideo |-> FALSE,
                   translating |-> FALSE,
                   sent |-> <<>>,
                   inFlight |-> 0]
    /\ route = Unused
    /\ ticker = Unused
    /\ speechPage = Unused

NextTextPage ==
    \/ ChangeInput
    \/ HandleTranslateClick
    \/ TranslateReturns
    \/ HandleGenerateVideoClick
    \/ GenerateReturns
    \/ HandleClearInput
    \/ HandleClearTranslation

SpecTextPage == InitTextPage /\ [][NextTextPage]_vars

(***************************************************************************)
(* SpeechToIslPage: the recording state, the recognition effect and the    *)
(* SpeechRecognition instances it creates.  speechPage.instances maps the  *)
(* number of an instance to "none" (not created), "idle", "running" or     *)
(* "stopping" (stop() was called and its end event is due), and            *)
(* speechPage.captured to the finalTranscribedText its handlers closed     *)
(* over.  A handler's state updates, the render and the effects that       *)
(* follow it are one step.  The page's translate and generate handlers     *)
(* touch none of this state.                                               *)
(***************************************************************************)
InstanceIds == 1..MaxInstances

SpeechLangs == {"en-US", "hi-IN"}

\* a final result, trimmed and followed by a space, and an interim result
FinalPiece == <<"w", " ">>

InterimPiece == <<"i">>

\* recognition.stop(): the end event of a running instance becomes due
StopInstance(instances, id) ==
    IF id # 0 /\ instances[id] = "running"
    THEN [instances EXCEPT ![id] = "stopping"]
    ELSE instances

\* the effects after a render: recordingRef.current = isRecording
\* (part_002:99-101), and, when selectedLang or finalTranscribedText
\* changed, the cleanup of the recognition effect, which stops
\* recognitionRef.current, and the effect, which creates an instance and
\* makes it recognitionRef.current (part_002:150-230)
Commit(p) ==
    LET q == [p EXCEPT !.recordingRef = p.isRecording]
        id == q.made + 1
    IN  IF q.selectedLang = q.effectLang /\ q.finalTranscribedText = q.effectFinal
        THEN q
        ELSE IF q.supported
             THEN [q EXCEPT
                      !.instances = [StopInstance(q.instances, q.recognitionRef)
                                        EXCEPT ![id] = "idle"],
                      !.captured = [q.captured EXCEPT ![id] = q.finalTranscribedText],
                      !.recognitionRef = id,
                      !.made = id,
                      !.effectLang = q.selectedLang,
                      !.effectFinal = q.finalTranscribedText]
             ELSE [q EXCEPT !.effectLang = q.selectedLang,
                            !.effectFinal = q.finalTranscribedText]

\* whether Commit(p) can create the instance it needs
CanCommit(p) ==
    \/ (p.selectedLang = p.effectLang /\ p.finalTranscribedText = p.effectFinal)
    \/ ~p.supported
    \/ p.made < MaxInstances

\* recognition.start(): throws unless the instance is idle
Startable(p, id) == p.instances[id] = "idle"

\* the Select, which is disabled while recording       (part_002:348)
ChangeLang ==
    /\ speechPage.pc = "page"
    /\ ~speechPage.isRecording
    /\ \E lang \in SpeechLangs :
          LET p == [speechPage EXCEPT !.selectedLang = lang]
          IN  /\ CanCommit(p)
              /\ speechPage' = Commit(p)
    /\ UNCHANGED <<requestVars, route, ticker, textPage>>

\* handleMicClick while not recording                  (part_002:236-247)
MicClickStart ==
    /\ speechPage.pc = "page"
    /\ ~speechPage.isRecording
    /\ LET id == speechPage.recognitionRef
           started == id # 0 /\ Startable(speechPage, id)
           p == [speechPage EXCEPT
                    !.transcribedText = <<>>,
                    !.finalTranscribedText = <<>>,
                    !.isRecording = (id = 0 \/ started),
                    !.instances = IF started
                                  THEN [speechPage.instances EXCEPT ![id] = "running"]
                                  ELSE speechPage.instances,
                    !.stopClicked = FALSE]
       IN  /\ CanCommit(p)
           /\ speechPage' = Commit(p)
    /\ UNCHANGED <<requestVars, route, ticker, textPage>>

\* handleMicClick while recording                      (part_002:233-235)
MicClickStop ==
    /\ speechPage.pc = "page"
    /\ speechPage.isRecording
    /\ speechPage' =
          Commit([speechPage EXCEPT
                     !.instances = StopInstance(speechPage.instances,
                                                speechPage.recognitionRef),
                     !.isRecording = FALSE,
                     !.stopClicked = TRUE])
    /\ UNCHANGED <<requestVars, route, ticker, textPage>>

\* recognition.onresult of a running instance          (part_002:159-175)
OnResult ==
    /\ speechPage.pc = "page"
    /\ \E id \in InstanceIds, final \in BOOLEAN :
          /\ speechPage.instances[id] = "running"
          /\ Len(speechPage.finalTranscribedText) < Len(FinalPiece) * MaxFinals
          /\ LET newFinalTranscript == IF final THEN FinalPiece ELSE <<>>
                 interimTranscript == IF final THEN <<>> ELSE InterimPiece
                 p == [speechPage EXCEPT
                          !.finalTranscribedText =
                              speechPage.finalTranscribedText \o newFinalTranscript,
                          !.transcribedText =
                              speechPage.captured[id] \o newFinalTranscript
                                  \o interimTranscript]
             IN  /\ CanCommit(p)
                 /\ speechPage' = Commit(p)
    /\ UNCHANGED <<requestVars, route, ticker, textPage>>

\* recognition.onerror of a running instance, whose end event is then due;
\* whether start() throws on an instance that has not ended yet is the
\* browser's choice                                    (part_002:177-200)
OnError ==
    /\ speechPage.pc = "page"
    /\ \E id \in InstanceIds, error \in {"aborted", "no-speech", "network"},
          throws \in BOOLEAN :
          /\ speechPage.instances[id] = "running"
          /\ LET ending == [speechPage EXCEPT !.instances[id] = "stopping"]
             IN  speechPage' =
                    IF error \in {"aborted", "no-speech"} /\ speechPage.recordingRef
                    THEN IF throws
                         THEN Commit([ending EXCEPT !.isRecording = FALSE])
                         ELSE speechPage
                    ELSE Commit([ending EXCEPT !.isRecording = FALSE])
    /\ UNCHANGED <<requestVars, route, ticker, textPage>>

\* recognition.onend of an instance that was stopped   (part_002:202-213)
OnEnd ==
    /\ speechPage.pc = "page"
    /\ \E id \in InstanceIds :
          /\ speechPage.instances[id] = "stopping"
          /\ speechPage' =
                IF speechPage.recordingRef
                THEN [speechPage EXCEPT !.instances[id] = "running"]
                ELSE Commit([speechPage EXCEPT !.instances[id] = "idle",
                                               !.isRecording = FALSE])
    /\ UNCHANGED <<requestVars, route, ticker, textPage>>

\* the page after its first render and effects (part_002:85-101, 150-230);
\* stopClicked tells that the last mic click was one that stops recording
InitSpeechPage ==
    /\ NoRequest
    /\ \E supported \in BOOLEAN :
          speechPage =
             [pc |-> "page",
              supported |-> supported,
              selectedLang |-> "en-US",
              isRecording |-> FALSE,
              transcribedText |-> <<>>,
              finalTranscribedText |-> <<>>,
              recordingRef |-> FALSE,
              recognitionRef |-> IF supported THEN 1 ELSE 0,
              instances |-> [id \in InstanceIds |->
                                IF supported /\ id = 1 THEN "idle" ELSE "none"],
              captured |-> [id \in InstanceIds |-> <<>>],
              made |-> IF supported THEN 1 ELSE 0,
              effectLang |-> "en-US",
              effectFinal |-> <<>>,
              stopClicked |-> FALSE]
    /\ route = Unused
    /\ ticker = Unused
    /\ textPage = Unused

NextSpeechPage ==
    \/ ChangeLang
    \/ MicClickStart
    \/ MicClickStop
    \/ OnResult
    \/ OnError
    \/ OnEnd

SpecSpeechPage == InitSpeechPage /\ [][NextSpeechPage]_vars

(***************************************************************************)
(* Vocabulary of the properties.                                           *)
(***************************************************************************)
Done == pc = "done"

\* the matching loop is about to run an iteration
AtIteration == pc = "loop" /\ i < Len(words)

\* the last token indices j of the windows the matcher tries at cursor c
WindowEnds(c) == {j \in c..Len(words) - 1 : j <= c + 2}

\* those whose space-joined string is a library key
KeyWindowEnds(c) == {j \in WindowEnds(c) : Phrase(words, c, j) \in DOMAIN videoMap}

Largest(S) == CHOOSE x \in S : \A y \in S : y <= x

\* some window of up to three tokens of the text is a library key
SomeWindowIsKey == \E c \in 0..Len(words) - 1 : KeyWindowEnds(c) # {}

PathOfClip(name) == ClipPath(<<>>, name)

(***************************************************************************)
(* C1  Longest match: at every cursor position where some window of up to  *)
(* three tokens is a library key, the iteration appends the clip of the    *)
(* longest such window and moves the cursor just past it; with the keys    *)
(* "new delhi" and "delhi" the text "new delhi" gives [path(new delhi)].   *)
(***************************************************************************)
C1_LongestWindowStep ==
    (AtIteration /\ KeyWindowEnds(i) # {}) =>
        LET j == Largest(KeyWindowEnds(i))
        IN  /\ playlist' = Append(playlist, videoMap[Phrase(words, i, j)])
            /\ i' = j + 1

C1_Example ==
    (Done /\ text = NewDelhi
          /\ {<<"d", "e", "l", "h", "i">>, NewDelhi} \subseteq DOMAIN videoMap) =>
        /\ playlist = <<PathOfClip(<<"n", "e", "w", "_", "d", "e", "l", "h", "i">>)>>
        /\ (entry = "plain" => result = playlist)

\* C1: every iteration takes the longest key window at the cursor, and the
\* new delhi example holds
C1_LongestMatch == [][C1_LongestWindowStep]_vars /\ []C1_Example

C1_Witness ==
    /\ Done
    /\ text = NewDelhi
    /\ <<"d", "e", "l", "h", "i">> \in DOMAIN videoMap
    /\ spans = << <<0, 1>> >>
    /\ result = <<PathOfClip(<<"n", "e", "w", "_", "d", "e", "l", "h", "i">>)>>

(***************************************************************************)
(* C2  No token is consumed twice: the cursor never retreats and grows in  *)
(* every iteration, and the windows of the matched clips are pairwise      *)
(* disjoint; "a b c" with only "a b" and "c" as keys gives two clips.      *)
(***************************************************************************)
C2_CursorAdvances == i' >= i /\ (AtIteration => i' > i)

C2_SpansDisjoint ==
    /\ Len(spans) = Len(playlist)
    /\ \A k \in 1..Len(spans) :
          /\ 0 <= spans[k][1] /\ spans[k][1] <= spans[k][2]
          /\ spans[k][2] < Len(words)
    /\ \A k, l \in 1..Len(spans) :
          k # l => (spans[k][2] < spans[l][1] \/ spans[l][2] < spans[k][1])

C2_Example ==
    (Done /\ text = <<"a", " ", "b", " ", "c">>
          /\ DOMAIN videoMap = {<<"a", " ", "b">>, <<"c">>}) =>
        playlist = <<PathOfClip(<<"a", "_", "b">>), PathOfClip(<<"c">>)>>

\* C2: the cursor only advances, matched windows are pairwise disjoint, and
\* the a b c example holds
C2_NoReconsumption ==
    [][C2_CursorAdvances]_vars /\ []C2_SpansDisjoint /\ []C2_Example

C2_Witness ==
    /\ Done
    /\ text = <<"a", " ", "b", " ", "c">>
    /\ spans = << <<0, 1>>, <<2, 2>> >>
    /\ Len(playlist) = 2

(***************************************************************************)
(* C3  Reading order: clip k of the playlist is the clip of the k-th       *)
(* matched window, and the windows start and end in increasing order; the  *)
(* plain entry returns the playlist in that order and a stitched file is   *)
(* the concatenation of the clips in that order.                           *)
(***************************************************************************)
C3_ReadingOrder ==
    /\ Len(spans) = Len(playlist)
    /\ \A k \in 1..Len(playlist) :
          playlist[k] = videoMap[Phrase(words, spans[k][1], spans[k][2])]
    /\ \A k, l \in 1..Len(playlist) :
          k < l => (spans[k][1] < spans[l][1] /\ spans[k][2] < spans[l][2])
    /\ (Done /\ entry = "plain") => result = playlist
    /\ (Done /\ entry = "stitched" /\ Len(playlist) >= 2 /\ result # <<>>) =>
          /\ Len(result) = 1
          /\ (PublicDir \o result[1]) \in DOMAIN files
          /\ files[PublicDir \o result[1]] =
                [k \in 1..Len(playlist) |-> PublicDir \o playlist[k]]

C3_Witness ==
    /\ Done
    /\ entry = "plain"
    /\ Len(result) = 2
    /\ result[1] # result[2]
    /\ spans[1][2] < spans[2][1]

\* the elements of a sequence
Range(q) == {q[k] : k \in 1..Len(q)}

\* the keys of the library built from getIslVideos' paths
LibraryKeys == DOMAIN BuildVideoMap(allVideoPaths)

\* the path the library maps key to: the last path in traversal order
\* whose normalized name is key
LibraryPath(key) ==
    LET at == {k \in 1..Len(allVideoPaths) : KeyOf(allVideoPaths[k]) = key}
    IN  allVideoPaths[Largest(at)]

IsAlphanumeric(c) == c \in Range(LowerCase) \cup Range(UpperCase) \cup Range(Digits)

HasAlphanumeric(str) == \E k \in 1..Len(str) : IsAlphanumeric(str[k])

(***************************************************************************)
(* C4  (as stated) An input equal to any library key yields a one-element  *)
(* playlist holding that key's path.                                       *)
(***************************************************************************)
C4_VerbatimKey ==
    (Done /\ text \in LibraryKeys) => result = <<LibraryPath(text)>>

\* a phrase of one to three non-empty words separated by single spaces,
\* without '.', ',' or other white space
IsPlainPhrase(str) ==
    /\ str # <<>>
    /\ \A k \in 1..Len(str) : str[k] \notin ({".", ","} \cup (WhiteSpace \ {" "}))
    /\ str[1] # " " /\ str[Len(str)] # " "
    /\ \A k \in 1..Len(str) - 1 : ~(str[k] = " " /\ str[k + 1] = " ")
    /\ Cardinality({k \in 1..Len(str) : str[k] = " "}) <= 2

(***************************************************************************)
(* C4  (amended) An input equal to a library key that is one to three      *)
(* words separated by single spaces, without '.' or ',', yields a          *)
(* one-element playlist holding that key's path, from either entry.        *)
(***************************************************************************)
C4_VerbatimPlainKey ==
    (Done /\ text \in LibraryKeys /\ IsPlainPhrase(text)) =>
        /\ playlist = <<LibraryPath(text)>>
        /\ result = <<LibraryPath(text)>>

C4_Witness ==
    /\ Done
    /\ text = <<"a", " ", "b", " ", "a">>
    /\ text \in LibraryKeys
    /\ entry = "stitched"
    /\ result = <<PathOfClip(<<"a", "_", "b", "_", "a">>)>>

(***************************************************************************)
(* C5  The returned playlist is empty when the text is empty, when the     *)
(* library is empty, and when no window of up to three tokens is a key.    *)
(***************************************************************************)
C5_EmptyResult ==
    Done =>
        /\ text = <<>> => result = <<>>
        /\ allVideoPaths = <<>> => result = <<>>
        /\ (text # <<>> /\ ~SomeWindowIsKey) => result = <<>>

C5_Witness ==
    /\ Done
    /\ entry = "stitched"
    /\ Len(words) >= 2
    /\ \E k \in 1..Len(words) : words[k] # <<>>
    /\ allVideoPaths # <<>>
    /\ ~SomeWindowIsKey
    /\ result = <<>>

(***************************************************************************)
(* C6  (as stated) A text without letters and digits gives an empty        *)
(* playlist with every library.                                            *)
(***************************************************************************)
C6_NoAlphanumericText ==
    (Done /\ ~HasAlphanumeric(text)) => result = <<>>

(***************************************************************************)
(* C6  (amended) A text without letters and digits gives an empty playlist *)
(* with every library whose keys each hold a letter or a digit.            *)
(***************************************************************************)
C6_NoAlphanumericTextWordKeys ==
    (Done /\ ~HasAlphanumeric(text)
          /\ \A key \in LibraryKeys : HasAlphanumeric(key)) =>
        playlist = <<>> /\ result = <<>>

C6_Witness ==
    /\ Done
    /\ ~HasAlphanumeric(text)
    /\ "!" \in Range(text) /\ "." \in Range(text) /\ " " \in Range(text)
    /\ LibraryKeys # {}
    /\ \A key \in LibraryKeys : HasAlphanumeric(key)
    /\ result = <<>>

\* the last segment of a path
BaseName(p) ==
    LET slashes == {k \in 1..Len(p) : p[k] = "/"}
    IN  IF slashes = {} THEN p ELSE SubSeq(p, Largest(slashes) + 1, Len(p))

\* a file name without its extension, the clip extension being its end
WithoutExtension(name) ==
    IF Len(name) >= Len(Mp4) /\ SubSeq(name, Len(name) - Len(Mp4) + 1, Len(name)) = Mp4
    THEN SubSeq(name, 1, Len(name) - Len(Mp4))
    ELSE name

\* extension stripped, underscores to spaces, lowercased
NormalizedName(p) == ToLowerCase(UnderscoresToSpaces(WithoutExtension(BaseName(p))))

\* str with the case of the letter at position k changed
FlipCase(str, k) ==
    [n \in 1..Len(str) |->
        IF n # k THEN str[n]
        ELSE IF \E u \in 1..Len(UpperCase) : UpperCase[u] = str[n]
             THEN LowerCase[CHOOSE u \in 1..Len(UpperCase) : UpperCase[u] = str[n]]
        ELSE IF \E u \in 1..Len(LowerCase) : LowerCase[u] = str[n]
             THEN UpperCase[CHOOSE u \in 1..Len(LowerCase) : LowerCase[u] = str[n]]
        ELSE str[n]]

\* changing the case of any one letter of the text leaves the matched
\* playlist as it is
CaseOfTextIrrelevant ==
    Done => \A k \in 1..Len(text) :
                MatchedPlaylist(FlipCase(text, k), allVideoPaths) = playlist

(***************************************************************************)
(* C7  Case and format insensitivity: the key of every clip file is its    *)
(* name with the extension stripped, underscores replaced by spaces, and   *)
(* lowercased; the clip of Mumbai_Central.mp4 is matched by "mumbai        *)
(* central" in any casing; the case of the text's letters does not change  *)
(* the playlist.                                                           *)
(***************************************************************************)
C7_CaseFormatInsensitive ==
    /\ (pc # "start" /\ text # <<>>) =>
          \A p \in Range(allVideoPaths) :
              WithoutExtension(BaseName(p)) # <<>> =>
                  NormalizedName(p) \in DOMAIN videoMap
    /\ (Done /\ allVideoPaths = <<PathOfClip(MumbaiCentral)>>
             /\ ToLowerCase(text) = ToLowerCase(UnderscoresToSpaces(MumbaiCentral))) =>
          playlist = <<PathOfClip(MumbaiCentral)>>
    /\ CaseOfTextIrrelevant

\* the two parts of C7 that do not depend on how the extension is removed
C7_MumbaiCentralAnyCase ==
    /\ (Done /\ allVideoPaths = <<PathOfClip(MumbaiCentral)>>
             /\ ToLowerCase(text) = ToLowerCase(UnderscoresToSpaces(MumbaiCentral))) =>
          playlist = <<PathOfClip(MumbaiCentral)>>
    /\ CaseOfTextIrrelevant

(***************************************************************************)
(* C8  Partial coverage: an iteration at a cursor where no window is a     *)
(* library key leaves the playlist as it is and moves the cursor by one;   *)
(* every playlist element is the path of a library key, and the playlist   *)
(* is never longer than the token list.                                    *)
(***************************************************************************)
C8_SkipStep ==
    (AtIteration /\ KeyWindowEnds(i) = {}) => (playlist' = playlist /\ i' = i + 1)

C8_OnlyLibraryClips ==
    /\ \A k \in 1..Len(playlist) :
          /\ playlist[k] \in Range(allVideoPaths)
          /\ \E key \in DOMAIN videoMap : videoMap[key] = playlist[k]
    /\ Len(playlist) <= Len(words)

\* C8: an unmatched token is skipped without any effect but the cursor
\* moving by one, and the playlist holds only library clips, at most one per
\* token
C8_PartialCoverage == [][C8_SkipStep]_vars /\ []C8_OnlyLibraryClips

C8_Witness ==
    /\ Done
    /\ Len(words) = 3
    /\ spans = << <<0, 0>>, <<2, 2>> >>
    /\ words[2] # <<>>
    /\ Len(result) = Len(playlist)

(***************************************************************************)
(* C9  (as stated) Whenever some window of up to three tokens is a library *)
(* key, the returned playlist has at least one element.                    *)
(***************************************************************************)
C9_NonEmptyWhenMatched ==
    (Done /\ text # <<>> /\ SomeWindowIsKey) => Len(result) >= 1

\* stitchVideosWithFfmpeg was given two or more clips and returned null
StitchFailed == entry = "stitched" /\ Len(playlist) >= 2 /\ stitchedVideo = Null

(***************************************************************************)
(* C9  (amended) Whenever some window of up to three tokens is a library   *)
(* key, the matched playlist has at least one element, and so has the      *)
(* returned playlist unless two or more clips matched and stitching them   *)
(* failed.                                                                 *)
(***************************************************************************)
C9_NonEmptyUnlessStitchFailed ==
    (Done /\ text # <<>> /\ SomeWindowIsKey) =>
        /\ Len(playlist) >= 1
        /\ (~StitchFailed => Len(result) >= 1)
        /\ (StitchFailed => result = <<>>)

C9_Witness ==
    /\ Done
    /\ SomeWindowIsKey
    /\ entry = "stitched"
    /\ Len(playlist) >= 2
    /\ stitchedVideo # Null
    /\ Len(result) = 1

(***************************************************************************)
(* C10  Stitching one path returns that path as it is, runs no tool and    *)
(* creates no directory, file list or output file.                         *)
(***************************************************************************)
C10_SingletonStitch ==
    (entry = "stitched" /\ Len(playlist) = 1 /\ ~(pc \in {"start", "loop"})) =>
        /\ Done
        /\ stitchedVideo = <<playlist[1]>>
        /\ result = <<playlist[1]>>
        /\ ffmpegCalls = 0
        /\ DOMAIN files = {}
        /\ dirs = {}

C10_Witness ==
    /\ Done
    /\ entry = "stitched"
    /\ Len(words) >= 2
    /\ Len(playlist) = 1
    /\ stitchedVideo = <<playlist[1]>>
    /\ ffmpegCalls = 0

(***************************************************************************)
(* Vocabulary of the stitching properties (one request, Spec).             *)
(***************************************************************************)
StartsWith(s, prefix) ==
    Len(s) >= Len(prefix) /\ SubSeq(s, 1, Len(prefix)) = prefix

\* the request handed two or more clips to stitchVideosWithFfmpeg
StitchingMany == entry = "stitched" /\ Len(playlist) >= 2

\* the absolute paths of the matched clips, in playlist order
AbsoluteClips == [k \in 1..Len(playlist) |-> PublicDir \o playlist[k]]

\* the steps of a finished stitch of two or more clips that failed, read off
\* the file system the request started with empty
MkdirFailed == Done /\ StitchingMany /\ OutputDir \notin dirs
WriteFileFailed == Done /\ StitchingMany /\ OutputDir \in dirs /\ ffmpegCalls = 0
ToolFailed ==
    Done /\ StitchingMany /\ ffmpegCalls > 0
         /\ OutputPath(outputFileName) \notin DOMAIN files
UnlinkFailed ==
    Done /\ StitchingMany /\ OutputPath(outputFileName) \in DOMAIN files
         /\ TempListPath \in DOMAIN files

(***************************************************************************)
(* C11  For two or more clips: the list file handed to the tool names the  *)
(* clips in playlist order, one line per clip (duplicates kept); when the  *)
(* tool succeeds, stitch returns exactly one path, which lies in the       *)
(* output directory, is none of the input paths, and names the file the    *)
(* tool wrote.                                                             *)
(***************************************************************************)
C11_StitchedOutput ==
    /\ (pc = "exec") =>
          /\ StitchingMany
          /\ TempListPath \in DOMAIN files
          /\ Len(SplitOn(files[TempListPath], {"\n"}, FALSE)) = Len(playlist)
          /\ ListedFiles(files[TempListPath]) = AbsoluteClips
    /\ (Done /\ StitchingMany /\ OutputPath(outputFileName) \in DOMAIN files) =>
          /\ stitchedVideo # Null
          /\ result = <<stitchedVideo[1]>>
          /\ StartsWith(PublicDir \o result[1], OutputDir \o <<"/">>)
          /\ PublicDir \o result[1] = OutputPath(outputFileName)
          /\ \A k \in 1..Len(playlist) : result[1] # playlist[k]

C11_Witness ==
    /\ Done
    /\ StitchingMany
    /\ OutputPath(outputFileName) \in DOMAIN files
    /\ playlist[1] = playlist[2]
    /\ Len(result) = 1

(***************************************************************************)
(* C12  (as stated) If any step of stitching two or more clips fails       *)
(* (creating the directory, writing the list, the tool, removing the       *)
(* list), stitch returns null and the entry point returns the empty list.  *)
(***************************************************************************)
C12_AnyFailureReturnsNull ==
    (MkdirFailed \/ WriteFileFailed \/ ToolFailed \/ UnlinkFailed) =>
        (stitchedVideo = Null /\ result = <<>>)

(***************************************************************************)
(* C12  (amended) If creating the directory, writing the list or the tool  *)
(* fails, stitch returns null and the entry point returns the empty list,  *)
(* never the unstitched clips; a failed removal of the list is not a       *)
(* failure of the stitch, which still returns the path of the output.      *)
(***************************************************************************)
C12_FailureReturnsNull ==
    /\ (MkdirFailed \/ WriteFileFailed \/ ToolFailed) =>
          (stitchedVideo = Null /\ result = <<>>)
    /\ UnlinkFailed =>
          result = <<ReturnedPath(OutputPath(outputFileName))>>
    /\ (Done /\ StitchingMany) => result # playlist

C12_Witness ==
    /\ ToolFailed
    /\ result = <<>>
    /\ stitchedVideo = Null

(***************************************************************************)
(* C13  (as stated) The stitched entry returns at most one path, and a     *)
(* returned path names a file this request's tool run created.             *)
(***************************************************************************)
C13_ZeroOrOneFreshAsset ==
    (Done /\ entry = "stitched") =>
        /\ Len(result) <= 1
        /\ (Len(result) = 1) =>
              (ffmpegCalls = 1 /\ (PublicDir \o result[1]) \in DOMAIN files)

(***************************************************************************)
(* C13  (amended) The stitched entry returns at most one path; a returned  *)
(* path is the matched clip itself when exactly one clip matched, and      *)
(* names a file this request's tool run created when two or more matched.  *)
(***************************************************************************)
C13_ZeroOrOnePath ==
    (Done /\ entry = "stitched") =>
        /\ Len(result) <= 1
        /\ (Len(result) = 1) =>
              \/ /\ Len(playlist) = 1
                 /\ result[1] = playlist[1]
                 /\ ffmpegCalls = 0
              \/ /\ Len(playlist) >= 2
                 /\ ffmpegCalls = 1
                 /\ (PublicDir \o result[1]) \in DOMAIN files
                 /\ files[PublicDir \o result[1]] = AbsoluteClips

C13_Witness ==
    /\ Done
    /\ entry = "stitched"
    /\ Len(playlist) = 1
    /\ result = <<playlist[1]>>
    /\ DOMAIN files = {}

(***************************************************************************)
(* C15  (as stated) Once a stitch of two or more clips that wrote the list *)
(* file has returned, the list file no longer exists, unless its removal   *)
(* was attempted and failed, in which case the path of the output is       *)
(* returned all the same.                                                  *)
(***************************************************************************)
C15_ManifestRemoved ==
    /\ (Done /\ StitchingMany /\ ffmpegCalls > 0) =>
          (TempListPath \notin DOMAIN files \/ UnlinkFailed)
    /\ UnlinkFailed =>
          result = <<ReturnedPath(OutputPath(outputFileName))>>

(***************************************************************************)
(* C14  stitchVideosWithFfmpeg called with an empty list returns null in   *)
(* its first step, and that step creates no directory and no file and      *)
(* runs no tool; the invocation takes no other step.                       *)
(***************************************************************************)
C14_EmptyListStep ==
    (peer.videoPaths = <<>> /\ peer' # peer) =>
        /\ peer.pc = "call"
        /\ peer'.pc = "done"
        /\ peer'.returned = Null
        /\ UNCHANGED <<files, dirs, ffmpegCalls>>

C14_EmptyListPositions ==
    (peer.videoPaths = <<>>) =>
        /\ peer.pc \in {"call", "done"}
        /\ (peer.pc = "done" => peer.returned = Null)

C14_EmptyStitch == [][C14_EmptyListStep]_vars /\ []C14_EmptyListPositions

C14_Witness ==
    /\ peer.videoPaths = <<>>
    /\ peer.pc = "done"
    /\ peer.returned = Null
    /\ pc = "start"
    /\ DOMAIN files = {}
    /\ dirs = {}
    /\ ffmpegCalls = 0

(***************************************************************************)
(* C16  (as stated) Two invocations that each merged clips wrote distinct  *)
(* output files and returned distinct paths, concurrent or not.            *)
(***************************************************************************)
C16_DistinctOutputs ==
    (/\ Done /\ StitchingMany /\ stitchedVideo # Null
     /\ peer.pc = "done" /\ Len(peer.videoPaths) >= 2 /\ peer.returned # Null) =>
        /\ OutputPath(outputFileName) # OutputPath(peer.outputFileName)
        /\ stitchedVideo # peer.returned

(***************************************************************************)
(* Vocabulary of the digit properties (SpecAnnounce).                      *)
(***************************************************************************)
\* the request's text is the English announcement with its digits set apart
Normalized ==
    /\ entry = "stitched"
    /\ announcement # Null
    /\ announcement[1] # <<>>
    /\ pc # "handle"

Tokenized == Normalized /\ pc # "start"

LoopFinished == Tokenized /\ ~(pc = "loop" /\ i < Len(words))

\* position q of t is next to a digit
BesideDigit(t, q) ==
    \/ q > 1 /\ IsDigit(t[q - 1])
    \/ q < Len(t) /\ IsDigit(t[q + 1])

\* t without the characters next to a digit
WithoutDigitNeighbours(t) ==
    LET keep == {q \in 1..Len(t) : ~BesideDigit(t, q)}
        nth(n) == CHOOSE q \in keep : Cardinality({r \in keep : r <= q}) = n
    IN  [n \in 1..Cardinality(keep) |-> t[nth(n)]]

HasDigit(w) == \E k \in 1..Len(w) : IsDigit(w[k])

\* token k (from 1) is a digit the library has a clip for
DigitWithClip(k) ==
    /\ Len(words[k]) = 1
    /\ IsDigit(words[k][1])
    /\ Has(videoMap, words[k])

\* token k (from 1) was matched on its own, by the clip of its digit
ResolvedAlone(k) ==
    \E n \in 1..Len(spans) :
        /\ spans[n] = <<k - 1, k - 1>>
        /\ playlist[n] = videoMap[words[k]]

\* some window of two or three tokens that holds token k is a library key
InsideKeyPhrase(k) ==
    \E c \in 0..Len(words) - 1 :
        \E j \in (c + 1)..Min(c + 2, Len(words) - 1) :
            c <= k - 1 /\ k - 1 <= j /\ Has(videoMap, Phrase(words, c, j))

\* a space is put before and after every digit and nothing else changes
C17_SpacesAroundDigits ==
    Normalized =>
        /\ Len(text) = Len(announcement[1])
                         + 2 * DigitCount(announcement[1], 1, Len(announcement[1]))
        /\ \A q \in 1..Len(text) :
              IsDigit(text[q]) =>
                  /\ 1 < q /\ q < Len(text)
                  /\ text[q - 1] = " " /\ text[q + 1] = " "
        /\ WithoutDigitNeighbours(text) = announcement[1]

\* every token that holds a digit is one digit
C17_DigitTokens ==
    Tokenized => \A k \in 1..Len(words) : HasDigit(words[k]) => Len(words[k]) = 1

C17_Example ==
    (Tokenized /\ announcement = <<Train12Arriving>>) =>
        words = << <<"t", "r", "a", "i", "n">>, <<"1">>, <<"2">>,
                   <<"a", "r", "r", "i", "v", "i", "n", "g">> >>

Indexed == pc # "start"

RECURSIVE EntriesUnder(_, _, _)
\* the entries at any depth below a directory: for each, the directory
\* names leading to it, the entry, and whether every directory on the way
\* down to it can be read
EntriesUnder(dir, entries, reached) ==
    UNION {{[dir |-> dir, node |-> entries[k], reached |-> reached]}
           \cup (IF entries[k].kind = "dir"
                 THEN EntriesUnder(dir \o <<entries[k].name>>,
                                   entries[k].entries,
                                   reached /\ entries[k].readable)
                 ELSE {})
           : k \in 1..Len(entries)}

LibraryEntries == EntriesUnder(<<>>, library.entries, TRUE)

UnreadableDirs ==
    {n \in LibraryEntries : n.node.kind = "dir" /\ ~n.node.readable}

FullyReadable == library.state = "ok" /\ UnreadableDirs = {}

NamedLikeClip(n) == EndsWith(n.node.name, Mp4)

IsClipFile(n) == n.node.kind = "file" /\ NamedLikeClip(n)

PathOfEntry(n) == EntryPath(n.dir, n.node.name)

(***************************************************************************)
(* C18  When the library root is missing or cannot be read, getIslVideos   *)
(* returns the empty list, and the playlist request runs on as with an     *)
(* empty library: nothing matches, nothing is stitched, and it returns     *)
(* the empty playlist.                                                     *)
(***************************************************************************)
C18_MissingRoot ==
    (Indexed /\ library.state \in {"missing", "unreadable"}) =>
        /\ allVideoPaths = <<>>
        /\ DOMAIN videoMap = {}
        /\ playlist = <<>>
        /\ pc \in {"loop", "done"}
        /\ stitchedVideo = Null
        /\ ffmpegCalls = 0 /\ DOMAIN files = {} /\ dirs = {}
        /\ result = <<>>

C18_Witness ==
    /\ Done
    /\ library.state = "missing"
    /\ library.entries # <<>>
    /\ Len(words) = 2
    /\ result = <<>>

(***************************************************************************)
(* C19  With a readable root, a subdirectory that cannot be read gives no  *)
(* path, and every clip file that lies below readable directories only is  *)
(* returned all the same.                                                  *)
(***************************************************************************)
C19_UnreadableSubdirSkipped ==
    (Indexed /\ library.state = "ok") =>
        /\ \A n \in UnreadableDirs :
              \A k \in 1..Len(allVideoPaths) :
                  ~StartsWith(allVideoPaths[k], PathOfEntry(n) \o <<"/">>)
        /\ \A n \in LibraryEntries :
              (n.reached /\ IsClipFile(n)) =>
                  \E k \in 1..Len(allVideoPaths) : allVideoPaths[k] = PathOfEntry(n)

C19_Witness ==
    /\ Done
    /\ library.state = "ok"
    /\ library.entries =
          <<Dir(<<"d">>, TRUE,
                <<File(NameA), Dir(<<"u">>, FALSE, <<File(NameB)>>), File(NameB)>>)>>
    /\ allVideoPaths = <<EntryPath(<< <<"d">> >>, NameA), EntryPath(<< <<"d">> >>, NameB)>>
    /\ Len(playlist) = 2

(***************************************************************************)
(* C20  (as stated) For a fully readable tree, the paths returned are      *)
(* those of exactly the entries, at any depth, whose name ends with .mp4.  *)
(***************************************************************************)
C20_ExactlyNamedLikeClip ==
    (Indexed /\ FullyReadable) =>
        {allVideoPaths[k] : k \in 1..Len(allVideoPaths)}
            = {PathOfEntry(n) : n \in {m \in LibraryEntries : NamedLikeClip(m)}}

(***************************************************************************)
(* C20  (amended) For a fully readable tree, the paths returned are those  *)
(* of exactly the regular files, at any depth, whose name ends with .mp4,  *)
(* each once; a directory is entered whatever its name and is not          *)
(* returned itself, and an entry that is neither is ignored.               *)
(***************************************************************************)
C20_ExactlyClipFiles ==
    (Indexed /\ FullyReadable) =>
        /\ {allVideoPaths[k] : k \in 1..Len(allVideoPaths)}
              = {PathOfEntry(n) : n \in {m \in LibraryEntries : IsClipFile(m)}}
        /\ Len(allVideoPaths) = Cardinality({m \in LibraryEntries : IsClipFile(m)})

C20_Witness ==
    /\ Indexed
    /\ library.state = "ok"
    /\ library.entries = <<Dir(<<"d">> \o Mp4, TRUE, <<File(NameB)>>), Other(NameA)>>
    /\ allVideoPaths = <<EntryPath(<< <<"d">> \o Mp4 >>, NameB)>>

(***************************************************************************)
(* Vocabulary of the duplicate-name property (SpecIndex).                  *)
(***************************************************************************)
\* the positions, in traversal order, of the paths whose name normalizes to key
PositionsOfKey(key) ==
    {k \in 1..Len(allVideoPaths) :
        FileNameOf(allVideoPaths[k]) # <<>> /\ KeyOf(allVideoPaths[k]) = key}

\* some name is the normalized name of several paths
HasDuplicateKey ==
    \E k, l \in 1..Len(allVideoPaths) :
        k < l /\ KeyOf(allVideoPaths[k]) = KeyOf(allVideoPaths[l])

(***************************************************************************)
(* C21  The library has one entry for each normalized name, and it maps    *)
(* the name to the last path, in traversal order, that normalizes to it;   *)
(* every clip of the playlist is that last path of its phrase.             *)
(***************************************************************************)
C21_LastDuplicateWins ==
    Indexed =>
        /\ DOMAIN videoMap =
              {KeyOf(allVideoPaths[k]) : k \in {l \in 1..Len(allVideoPaths) :
                                                 FileNameOf(allVideoPaths[l]) # <<>>}}
        /\ \A key \in DOMAIN videoMap :
              videoMap[key] = allVideoPaths[Largest(PositionsOfKey(key))]
        /\ \A n \in 1..Len(playlist) :
              playlist[n] = allVideoPaths[Largest(PositionsOfKey(
                                Phrase(words, spans[n][1], spans[n][2])))]

C21_Witness ==
    /\ Done
    /\ library.state = "ok"
    /\ library.entries =
          <<File(NameA), Dir(<<"d">>, TRUE, <<File(NameC), File(NameA)>>)>>
    /\ allVideoPaths = <<EntryPath(<<>>, NameA), EntryPath(<< <<"d">> >>, NameA)>>
    /\ HasDuplicateKey
    /\ playlist = <<EntryPath(<< <<"d">> >>, NameA)>>
    /\ result = playlist

(***************************************************************************)
(* Vocabulary of the fallback property.                                    *)
(***************************************************************************)
\* the iteration of the while loop with the block of part_001:749-751
\* (if (videoMap.has(words[i])) push) taken out
StepWithoutFallback(ws, map, c, pl) ==
    LET j == ForWindow(ws, map, c, FirstJ(ws, c))
    IN  IF j # -1
        THEN [i |-> j + 1, playlist |-> Append(pl, map[Phrase(ws, c, j)])]
        ELSE [i |-> c + 1, playlist |-> pl]

\* the for loop at the cursor ends with foundMatch = false
NoWindowMatched == ForWindow(words, videoMap, i, FirstJ(words, i)) = -1

(***************************************************************************)
(* C26  Whenever the for loop at the cursor ends without a match, the      *)
(* token at the cursor is not a library key, and every iteration does      *)
(* what it would do with the single-word fallback taken out.               *)
(***************************************************************************)
C26_FallbackNeverAppends ==
    AtIteration =>
        /\ NoWindowMatched => ~Has(videoMap, words[i + 1])
        /\ LoopStep(words, videoMap, i, playlist)
              = StepWithoutFallback(words, videoMap, i, playlist)

C26_Witness ==
    /\ Done
    /\ entry = "plain"
    /\ Len(words) = 3
    /\ spans = << <<0, 0>>, <<2, 2>> >>
    /\ words[2] # <<>>
    /\ ~Has(videoMap, words[2])
    /\ result = playlist

(***************************************************************************)
(* Vocabulary of the padding property.                                     *)
(***************************************************************************)
\* white space put before or after a text
Paddings == {<<>>, <<" ">>, <<"\t", " ">>}

\* no library key begins or ends with a space
KeysTrimmed ==
    \A key \in LibraryKeys : key[1] # " " /\ key[Len(key)] # " "

(***************************************************************************)
(* C27  For a library none of whose keys begins or ends with a space, the  *)
(* playlist matched for a text is the playlist matched for the same text   *)
(* with white space put before it, after it, or both.                      *)
(***************************************************************************)
C27_PaddingIrrelevant ==
    (Done /\ entry = "plain" /\ KeysTrimmed) =>
        \A lead \in Paddings, trail \in Paddings :
            result = MatchedPlaylist(lead \o text \o trail, allVideoPaths)

C27_Witness ==
    /\ Done
    /\ entry = "plain"
    /\ KeysTrimmed
    /\ text # <<>>
    /\ text[1] = " "
    /\ text[Len(text)] = " "
    /\ Len(words) = 3
    /\ Len(result) = 1

(***************************************************************************)
(* C25  (as stated) With two invocations that each stitch two or more      *)
(* clips into outputs of different names, the list file an invocation's    *)
(* tool is about to read is the one that invocation wrote, and the file    *)
(* the tool has written is the concatenation of that invocation's clips.   *)
(***************************************************************************)
C25_OwnManifest ==
    (/\ StitchingMany /\ Len(peer.videoPaths) >= 2
     /\ outputFileName # peer.outputFileName) =>
        /\ (pc = "exec") =>
              /\ TempListPath \in DOMAIN files
              /\ files[TempListPath] = FileListContent(playlist)
        /\ (pc = "unlink") => files[OutputPath(outputFileName)] = AbsoluteClips
        /\ (peer.pc = "exec") =>
              /\ TempListPath \in DOMAIN files
              /\ files[TempListPath] = FileListContent(peer.videoPaths)
        /\ (peer.pc = "unlink") =>
              files[OutputPath(peer.outputFileName)]
                 = [k \in 1..Len(peer.videoPaths) |-> PublicDir \o peer.videoPaths[k]]

(***************************************************************************)
(* Vocabulary of the termination property (SpecIndexLive).                 *)
(***************************************************************************)
\* the request is waiting for the tool
AwaitingTool == pc = "exec"

\* every iteration of the while loop moves the cursor on, never past the end
C23_LoopVariant ==
    AtIteration => (i < i' /\ i' <= Len(words))

(***************************************************************************)
(* C23  Every iteration of the matching loop moves the cursor forward and  *)
(* not beyond the tokens, so the loop ends within words.length iterations; *)
(* and every playlist request, indexing included, either returns or waits  *)
(* for the tool for ever: it returns whenever the tool run completes.      *)
(***************************************************************************)
C23_ReturnsUnlessToolHangs ==
    /\ [][C23_LoopVariant]_vars
    /\ [](i <= Len(words))
    /\ (<>Done \/ <>[]AwaitingTool)

C23_Witness ==
    /\ Done
    /\ library.state = "ok"
    /\ Len(allVideoPaths) >= 2
    /\ Len(playlist) = 2
    /\ ffmpegCalls = 1
    /\ i = Len(words)

(***************************************************************************)
(* C22  (as stated) No failure of a collaborator leaves a server action    *)
(* as an exception: deleteTrainRoute always ends by returning a value.     *)
(***************************************************************************)
C22_NothingThrown == route.pc # "thrown"

(***************************************************************************)
(* C28  (as stated) Once deleteTrainRoute(id) has returned for a route     *)
(* that had audio rows and an audio directory, no row of                   *)
(* train_route_audio has its id and the directory of its train number is   *)
(* gone.                                                                   *)
(***************************************************************************)
C28_AudioGone ==
    (route.pc = "returned" /\ route.hadAudio) =>
        /\ route.id \notin route.audio
        /\ route.target[1].train_number \notin route.audioDirs

\* the language whose audio file an audio source is
LangOfSource(src) == CHOOSE l \in LangSet : src = Origin \o AudioPathOf(l)

(***************************************************************************)
(* C24  (as stated) Whenever an announcement audio starts playing, the     *)
(* ticker shows the translation text of the language the audio file        *)
(* belongs to, for every combination of translations and audio files.      *)
(***************************************************************************)
C24_TickerMatchesAudio ==
    ticker.audio = "playing" =>
        ticker.shownAtStart = ticker.translations[LangOfSource(ticker.audioSrc[1])]

\* the player is rendered, with a playlist that is not empty (page.tsx:308-318)
PlaylistShown ==
    /\ ~textPage.isTranslating
    /\ ~textPage.isGeneratingVideo
    /\ textPage.islPlaylist # <<>>

(***************************************************************************)
(* C29  (as stated) Whenever TextToIslPage shows a non-empty playlist, it  *)
(* is the one generated for the translated text the page shows: an answer  *)
(* of getIslVideoPlaylist that arrives after the translation was cleared   *)
(* or replaced is not shown.                                               *)
(***************************************************************************)
C29_PlaylistOfShownText ==
    PlaylistShown => textPage.sent[textPage.islPlaylist[1]] = textPage.translatedText

(***************************************************************************)
(* C30  (as stated) After the mic click that stops recording, the          *)
(* recognition instance that was running is stopped and none is            *)
(* restarted: no instance is running until the next recording starts.      *)
(***************************************************************************)
C30_StoppedStaysStopped ==
    speechPage.stopClicked =>
        \A id \in InstanceIds : speechPage.instances[id] # "running"

=============================================================================
